---- MODULE Spec2Model ----
(***************************************************************************)
(* A model of the taxonomy-merge engine of gg2/backbone_taxonomy.py:       *)
(* the polyphyly detector, the consistency validators, graft_from_other   *)
(* and the part of harmonize that strings them together.                   *)
(*                                                                         *)
(* Strings are modelled as sequences of one-character strings, so that    *)
(* the regular expressions, str.split and the rank prefixes are computed  *)
(* character by character.                                                 *)
(***************************************************************************)
EXTENDS Integers, Sequences, FiniteSets, TLC

VARIABLES
    pc,        \* position of the running function
    err,       \* the exception raised ("none" while there is none)
    gtdb_tax,  \* the primary table: a set of rows [id, lin, explicitly_set]
    ltp_tax,   \* the secondary table, same shape
    level,     \* get_polyphyletic: index (1..7) of the level of the loop
    todo,      \* get_polyphyletic: names of df[level].unique() not yet met
    result,    \* get_polyphyletic: level -> set of names (poly in harmonize)
    obs,       \* ids_of_ambiguity_from_polyphyletic: the returned ids
    removed,   \* harmonize: the ids written to the removed_ltp_taxa output
    other,     \* the secondary tree (ltp_tree)
    gtdb,      \* the primary tree (gtdb_tree) and what was grafted onto it
    lookup,    \* name -> node of the primary tree
    order,     \* graft_from_other: list(other.postorder(include_self=False))
    gi,        \* graft_from_other: index in order of the node of the loop
    other0,    \* the secondary tree as graft_from_other was called on it
    gtdb0,     \* the primary tree as graft_from_other was called
    ncbi_to_gtdb,     \* adjust_ltp: (level, name) -> the primary path to it
    auto_rename,      \* adjust_ltp: the sorted list of derived rules
    ei,               \* adjust_ltp: index of the entry of the renaming loop
    ltp_tax0,         \* the secondary table as the rules were derived from it
    tree,             \* tree_map: the tree chopped and cut in place
    tree0,            \* the tree as to_species_as_tips was called on it
    rank,             \* tree_map: the rank letter of the call
    traversal_order,  \* tree_map: the list the running loop goes through
    ti,               \* tree_map: index in traversal_order of the loop
    cut_removed,      \* cut_uncovered_species: the set `removed`
    name_node,        \* uniqify: the items of name_node, in insertion order
    in_,              \* parse_full_length: the records of the file, in order
    limit,            \* parse_full_length: the ids asked for
    d_,               \* parse_full_length: the dictionary d returned
    wol_seen,         \* parse_full_length: the genome ids met
    ri,               \* parse_full_length: index in in_ of the record read
    gtdb_metadata,    \* ncbi_to_gtdb_mappings: the rows of the metadata
    mappings,         \* ncbi_to_gtdb_mappings: (level, name) -> primary path
    drop,             \* ncbi_to_gtdb_mappings: the keys met with two paths
    mi                \* ncbi_to_gtdb_mappings: index of the row of the loop

vars == <<pc, err, gtdb_tax, ltp_tax, level, todo, result, obs, removed,
          other, gtdb, lookup, order, gi, other0, gtdb0,
          ncbi_to_gtdb, auto_rename, ei, ltp_tax0,
          tree, tree0, rank, traversal_order, ti, cut_removed,
          name_node, in_, limit, d_, wol_seen, ri,
          gtdb_metadata, mappings, drop, mi>>

tabVars == <<gtdb_tax, ltp_tax>>

polyVars == <<level, todo, result, obs>>

treeVars == <<other, gtdb, lookup, order, gi, other0, gtdb0>>

rewriteVars == <<ncbi_to_gtdb, auto_rename, ei, ltp_tax0>>

mapVars == <<tree, tree0, rank, traversal_order, ti, cut_removed>>

uniqVars == <<name_node>>

reportVars == <<in_, limit, d_, wol_seen, ri>>

indexVars == <<gtdb_metadata, mappings, drop, mi>>

\* the variables of uniqify while another function is the one running
UniqIdle == name_node = <<>>

\* the variables of parse_full_length while another function is running
ReportIdle ==
    /\ in_ = <<>>
    /\ limit = {}
    /\ d_ = <<>>
    /\ wol_seen = {}
    /\ ri = 0

\* the variables of ncbi_to_gtdb_mappings while another function is running
IndexIdle ==
    /\ gtdb_metadata = <<>>
    /\ mappings = <<>>
    /\ drop = {}
    /\ mi = 0

\* the variables of adjust_ltp while another function is the one running
RewriteIdle ==
    /\ ncbi_to_gtdb = <<>>
    /\ auto_rename = <<>>
    /\ ei = 0
    /\ ltp_tax0 = {}

\* the variables of tree_map while another function is the one running
MapIdle ==
    /\ tree = <<>>
    /\ tree0 = <<>>
    /\ rank = ""
    /\ traversal_order = <<>>
    /\ ti = 0
    /\ cut_removed = {}

----------------------------------------------------------------------------
(* Characters and strings *)

Upper == {"A","B","C","D","E","F","G","H","I","J","K","L","M",
          "N","O","P","Q","R","S","T","U","V","W","X","Y","Z"}

Lower == {"a","b","c","d","e","f","g","h","i","j","k","l","m",
          "n","o","p","q","r","s","t","u","v","w","x","y","z"}

Digit == {"0","1","2","3","4","5","6","7","8","9"}

\* the class [a-zA-Z0-9-] of both patterns
NameChar == Upper \cup Lower \cup Digit \cup {"-"}

\* the class [dpcofg] of POLY_GENERAL
GeneralRankChar == {"d","p","c","o","f","g"}

\* Python's None (no string is written with a character of four letters)
None == <<"None">>

\* re.match returned None
NoMatch == [matched |-> FALSE]

\* LEVELS, by the first letter of each level (format_name uses level[0])
LEVELS == <<"d", "p", "c", "o", "f", "g", "s">>

NumLevels == 7

LevelIdx == 1..NumLevels

\* first index >= i of s whose character is not in cls (Len(s)+1 if none)
RECURSIVE RunEnd(_, _, _)
RunEnd(s, i, cls) ==
    IF i <= Len(s) /\ s[i] \in cls THEN RunEnd(s, i + 1, cls) ELSE i

\* first index i >= from with s[i] = s[i+1] = "_" (0 if none)
RECURSIVE FindSep(_, _)
FindSep(s, from) ==
    IF from + 1 > Len(s) THEN 0
    ELSE IF s[from] = "_" /\ s[from + 1] = "_" THEN from
    ELSE FindSep(s, from + 1)

\* x.split('__', 1)[1]
SplitRank(s) ==
    LET i == FindSep(s, 1) IN SubSeq(s, i + 2, Len(s))

\* variant: no name is taken for a rank prefix alone
IsRankOnly_Never(name) == FALSE

\* len(name) == 3 and name.endswith('__')
IsRankOnly(name) ==
    Len(name) = 3 /\ name[2] = "_" /\ name[3] = "_"

\* the optional group (_[A-Z]+)? tried at index i: the index after it, or i
\* when the group takes no part
SuffixEnd(s, i) ==
    IF i <= Len(s) /\ s[i] = "_" /\ RunEnd(s, i + 1, Upper) > i + 1
    THEN RunEnd(s, i + 1, Upper)
    ELSE i

\* match.groups() for a group tried at index i that ended at index e: None
\* when it took no part (a group that takes part is never empty here)
GroupText(s, i, e) == IF e = i THEN None ELSE SubSeq(s, i, e - 1)

\* POLY_GENERAL.match(name): ^([dpcofg]__[a-zA-Z0-9-]+)(_[A-Z]+)?$
POLY_GENERAL(name) ==
    IF Len(name) < 4 \/ name[1] \notin GeneralRankChar
       \/ name[2] # "_" \/ name[3] # "_"
    THEN NoMatch
    ELSE LET e1 == RunEnd(name, 4, NameChar)
             e2 == SuffixEnd(name, e1)
         IN  IF e1 = 4 \/ e2 # Len(name) + 1 THEN NoMatch
             ELSE [matched |-> TRUE,
                   label |-> SubSeq(name, 1, e1 - 1),
                   label_poly |-> GroupText(name, e1, e2)]

\* POLY_SPECIES.match(name):
\* ^(s__[a-zA-Z0-9-]+)(_[A-Z]+)? ([a-zA-Z0-9-]+)(_[A-Z]+)?$
POLY_SPECIES(name) ==
    IF Len(name) < 4 \/ name[1] # "s" \/ name[2] # "_" \/ name[3] # "_"
    THEN NoMatch
    ELSE LET e1 == RunEnd(name, 4, NameChar)
             e2 == SuffixEnd(name, e1)
             e3 == RunEnd(name, e2 + 1, NameChar)
             e4 == SuffixEnd(name, e3)
         IN  IF e1 = 4 \/ e2 > Len(name) \/ name[e2] # " "
                \/ e3 = e2 + 1 \/ e4 # Len(name) + 1
             THEN NoMatch
             ELSE [matched |-> TRUE,
                   genus |-> SubSeq(name, 1, e1 - 1),
                   genus_poly |-> GroupText(name, e1, e2),
                   species |-> SubSeq(name, e2 + 1, e3 - 1),
                   species_poly |-> GroupText(name, e3, e4)]

\* df[level].unique(), as a set
Column(df, lvl) == {r.lin[lvl] : r \in df}

----------------------------------------------------------------------------
(* get_polyphyletic *)

\* variant: a name is added only when the table holds its plain form too
GeneralOutcome_NoAdd(name) ==
    IF IsRankOnly(name) THEN "skip"
    ELSE IF ~POLY_GENERAL(name).matched THEN "raise"
    ELSE "plain"

\* what the loop body of the levels LEVELS[:-1] does with one name
GeneralOutcome(name) ==
    IF IsRankOnly(name) THEN "skip"
    ELSE IF ~POLY_GENERAL(name).matched THEN "raise"
    ELSE IF POLY_GENERAL(name).label_poly # None THEN "add"
    ELSE "plain"

\* variant: the poly suffix is kept in the name that is added
GeneralAdded_KeepSuffix(name) == SplitRank(name)

\* label.split('__', 1)[1]: the label without its rank and its poly suffix
GeneralAdded(name) == SplitRank(POLY_GENERAL(name).label)

\* variant: only the genus half is looked at
SpeciesOutcome_GenusOnly(name) ==
    IF IsRankOnly(name) THEN "skip"
    ELSE IF ~POLY_SPECIES(name).matched THEN "raise"
    ELSE IF POLY_SPECIES(name).genus_poly # None THEN "add"
    ELSE "plain"

\* what the loop body of the species level does with one name
SpeciesOutcome(name) ==
    IF IsRankOnly(name) THEN "skip"
    ELSE IF ~POLY_SPECIES(name).matched THEN "raise"
    ELSE IF POLY_SPECIES(name).genus_poly # None
            \/ POLY_SPECIES(name).species_poly # None THEN "add"
    ELSE "plain"

\* f'{genus} {species}' with genus = genus.split('__', 1)[1]
SpeciesAdded(name) ==
    SplitRank(POLY_SPECIES(name).genus) \o <<" ">> \o POLY_SPECIES(name).species

Outcome(lvl, name) ==
    IF lvl < NumLevels THEN GeneralOutcome(name) ELSE SpeciesOutcome(name)

Added(lvl, name) ==
    IF lvl < NumLevels THEN GeneralAdded(name) ELSE SpeciesAdded(name)

\* get_polyphyletic is called: result = {}, the first level is entered
PolyStart ==
    /\ UNCHANGED <<uniqVars, reportVars, indexVars>>
    /\ UNCHANGED <<rewriteVars, mapVars>>
    /\ pc = "start"
    /\ pc' = "poly"
    /\ level' = 1
    /\ todo' = Column(gtdb_tax, 1)
    /\ result' = [l \in {1} |-> {}]
    /\ UNCHANGED <<err, tabVars, obs, removed, treeVars>>

\* a name that is only a rank prefix: continue
PolySkip ==
    /\ UNCHANGED <<uniqVars, reportVars, indexVars>>
    /\ UNCHANGED <<rewriteVars, mapVars>>
    /\ pc = "poly"
    /\ \E name \in todo :
          /\ Outcome(level, name) = "skip"
          /\ todo' = todo \ {name}
    /\ UNCHANGED <<pc, err, tabVars, level, result, obs, removed, treeVars>>

\* match is None: raise ValueError
PolyRaise ==
    /\ UNCHANGED <<uniqVars, reportVars, indexVars>>
    /\ UNCHANGED <<rewriteVars, mapVars>>
    /\ pc = "poly"
    /\ \E name \in todo :
          /\ Outcome(level, name) = "raise"
          /\ todo' = todo \ {name}
    /\ pc' = "raised"
    /\ err' = "ValueError"
    /\ UNCHANGED <<tabVars, level, result, obs, removed, treeVars>>

\* a name with a poly suffix: result[level].add(...)
PolyAdd ==
    /\ UNCHANGED <<uniqVars, reportVars, indexVars>>
    /\ UNCHANGED <<rewriteVars, mapVars>>
    /\ pc = "poly"
    /\ \E name \in todo :
          /\ Outcome(level, name) = "add"
          /\ todo' = todo \ {name}
          /\ result' = [result EXCEPT ![level] = @ \cup {Added(level, name)}]
    /\ UNCHANGED <<pc, err, tabVars, level, obs, removed, treeVars>>

\* a name that matches and has no poly suffix: nothing is added
PolyPlain ==
    /\ UNCHANGED <<uniqVars, reportVars, indexVars>>
    /\ UNCHANGED <<rewriteVars, mapVars>>
    /\ pc = "poly"
    /\ \E name \in todo :
          /\ Outcome(level, name) = "plain"
          /\ todo' = todo \ {name}
    /\ UNCHANGED <<pc, err, tabVars, level, result, obs, removed, treeVars>>

\* the names of a level are exhausted: result[level] = set() of the next one
PolyNextLevel ==
    /\ UNCHANGED <<uniqVars, reportVars, indexVars>>
    /\ UNCHANGED <<rewriteVars, mapVars>>
    /\ pc = "poly"
    /\ todo = {}
    /\ level < NumLevels
    /\ level' = level + 1
    /\ todo' = Column(gtdb_tax, level + 1)
    /\ result' = [l \in 1..(level + 1) |-> IF l <= level THEN result[l] ELSE {}]
    /\ UNCHANGED <<pc, err, tabVars, obs, removed, treeVars>>

\* return result
PolyReturn ==
    /\ UNCHANGED <<uniqVars, reportVars, indexVars>>
    /\ UNCHANGED <<rewriteVars, mapVars>>
    /\ pc = "poly"
    /\ todo = {}
    /\ level = NumLevels
    /\ pc' = "poly_done"
    /\ UNCHANGED <<err, tabVars, polyVars, removed, treeVars>>

\* get_polyphyletic as one call: whether it raises, and what it returns
GetPolyphyleticRaises(df) ==
    \E l \in LevelIdx : \E name \in Column(df, l) : Outcome(l, name) = "raise"

GetPolyphyletic(df) ==
    [l \in LevelIdx |->
        {Added(l, name) : name \in {n \in Column(df, l) : Outcome(l, n) = "add"}}]

----------------------------------------------------------------------------
(* ids_of_ambiguity_from_polyphyletic *)

\* the loop over LEVELS: obs.update(set(ids)) of the rows that hit
RECURSIVE IdsLoop(_, _, _, _)
IdsLoop(not_explicitly_set, poly, lvl, acc) ==
    IF lvl > NumLevels THEN acc
    ELSE LET hits == {r \in not_explicitly_set : r.lin[lvl] \in poly[lvl]}
         IN  IdsLoop(not_explicitly_set, poly, lvl + 1,
                     acc \cup {r.id : r \in hits})

\* variant: the explicitly_set flag is not looked at
NotExplicitlySet_All(df) == df

NotExplicitlySet(df) == {r \in df : r.explicitly_set = FALSE}

IdsOfAmbiguityFromPolyphyletic(df, poly) ==
    IdsLoop(NotExplicitlySet(df), poly, 1, {})

----------------------------------------------------------------------------
(* Trees: skbio.TreeNode, as an arena.  A tree is a record
   [root, nodes, children, parent, name, keepable]; children[n] is the
   ordered list node.children, parent[n] is node.parent. *)

\* node.parent is None
NoNode == <<"none", 0>>

\* node.is_tip(): not self.children
IsTip(t, n) == t.children[n] = <<>>

\* tree.postorder(): the children's subtrees in order, then the node
RECURSIVE Postorder(_, _)
RECURSIVE PostorderOfList(_, _)
Postorder(t, n) == PostorderOfList(t, t.children[n]) \o <<n>>
PostorderOfList(t, list) ==
    IF list = <<>> THEN <<>>
    ELSE Postorder(t, Head(list)) \o PostorderOfList(t, Tail(list))

\* list(tree.postorder(include_self=False)) from the root
PostorderNoSelf(t) == PostorderOfList(t, t.children[t.root])

SeqToSet(list) == {list[i] : i \in 1..Len(list)}

\* the nodes below n (n not included)
ProperDesc(t, n) == SeqToSet(PostorderOfList(t, t.children[n]))

\* the nodes reachable from the root (the root included)
InTree(t) == SeqToSet(Postorder(t, t.root))

\* [n.name for n in tree.tips()], as a set of nodes
Tips(t) == {n \in InTree(t) : IsTip(t, n) /\ n # t.root}

\* parent.remove(node)
Remove_Keep(t, n) == t

Remove_AllChildren(t, n) ==
    [t EXCEPT !.children[t.parent[n]] = <<>>, !.parent[n] = NoNode]

Remove(t, n) ==
    LET p == t.parent[n]
        NotN(c) == c # n
    IN  [t EXCEPT !.children[p] = SelectSeq(@, NotN), !.parent[n] = NoNode]

----------------------------------------------------------------------------
(* graft_from_other *)

\* desc.keepable after the loop that recomputes it over the copy: a tip keeps
\* the flag it was copied with, another node gets any(c.keepable for c in
\* desc.children), the children being set before it (postorder)
Keepable_All(t, d) == TRUE

Keepable_Never(t, d) == FALSE

RECURSIVE Keepable(_, _)
Keepable(t, d) ==
    IF IsTip(t, d) THEN t.keepable[d]
    ELSE \E i \in 1..Len(t.children[d]) : Keepable(t, t.children[d][i])

\* the children of x left in the copy once every desc that is not keepable
\* has been removed from its parent
KeptChildren(t, x) ==
    LET Kept(c) == Keepable(t, c) IN SelectSeq(t.children[x], Kept)

\* the nodes of the copy of n that are left below it after the pruning
KeptBelow(t, n) == {d \in ProperDesc(t, n) : Keepable(t, d)}

Extend_Replace(g, t, n, gtdb_node) ==
    [g EXCEPT !.children[gtdb_node] = KeptChildren(t, n)]

\* gtdb_node.extend(node.children), node being the pruned copy of n: the
\* copies are named by the nodes they are copies of

Extend(g, t, n, gtdb_node) ==
    LET kept == KeptBelow(t, n)
        all  == g.nodes \cup kept
    IN  [root |-> g.root,
         nodes |-> all,
         children |-> [x \in all |->
             IF x = gtdb_node THEN g.children[x] \o KeptChildren(t, n)
             ELSE IF x \in kept THEN KeptChildren(t, x)
             ELSE g.children[x]],
         parent |-> [x \in all |->
             IF x \in kept
             THEN (IF t.parent[x] = n THEN gtdb_node ELSE t.parent[x])
             ELSE g.parent[x]],
         name |-> [x \in all |-> IF x \in kept THEN t.name[x] ELSE g.name[x]],
         keepable |-> [x \in all |->
             IF x \in kept THEN TRUE ELSE g.keepable[x]]]

\* the node of this iteration
Cur == order[gi]

\* graft_from_other is called: the traversal is listed before the loop
GraftStart ==
    /\ UNCHANGED <<uniqVars, reportVars, indexVars>>
    /\ UNCHANGED <<rewriteVars, mapVars>>
    /\ pc = "graft_call"
    /\ pc' = "graft"
    /\ order' = PostorderNoSelf(other)
    /\ gi' = 1
    /\ other0' = other
    /\ gtdb0' = gtdb
    /\ UNCHANGED <<err, tabVars, polyVars, removed, other, gtdb, lookup>>

\* if node.is_tip(): continue
GraftTip ==
    /\ UNCHANGED <<uniqVars, reportVars, indexVars>>
    /\ UNCHANGED <<rewriteVars, mapVars>>
    /\ pc = "graft"
    /\ gi <= Len(order)
    /\ IsTip(other, Cur)
    /\ gi' = gi + 1
    /\ UNCHANGED <<pc, err, tabVars, polyVars, removed, other, gtdb, lookup,
                   order, other0, gtdb0>>

\* node.name in lookup: detach the node, copy it, prune the copy, graft
GraftMatch ==
    /\ UNCHANGED <<uniqVars, reportVars, indexVars>>
    /\ UNCHANGED <<rewriteVars, mapVars>>
    /\ pc = "graft"
    /\ gi <= Len(order)
    /\ ~IsTip(other, Cur)
    /\ other.name[Cur] \in DOMAIN lookup
    /\ other' = Remove(other, Cur)
    /\ gtdb' = Extend(gtdb, other, Cur, lookup[other.name[Cur]])
    /\ gi' = gi + 1
    /\ UNCHANGED <<pc, err, tabVars, polyVars, removed, lookup, order,
                   other0, gtdb0>>

\* node.name not in lookup: the node stays where it is
GraftNoMatch ==
    /\ UNCHANGED <<uniqVars, reportVars, indexVars>>
    /\ UNCHANGED <<rewriteVars, mapVars>>
    /\ pc = "graft"
    /\ gi <= Len(order)
    /\ ~IsTip(other, Cur)
    /\ other.name[Cur] \notin DOMAIN lookup
    /\ gi' = gi + 1
    /\ UNCHANGED <<pc, err, tabVars, polyVars, removed, other, gtdb, lookup,
                   order, other0, gtdb0>>

\* the loop is over
GraftReturn ==
    /\ UNCHANGED <<uniqVars, reportVars, indexVars>>
    /\ UNCHANGED <<rewriteVars, mapVars>>
    /\ pc = "graft"
    /\ gi > Len(order)
    /\ pc' = "grafted"
    /\ UNCHANGED <<err, tabVars, polyVars, removed, treeVars>>

----------------------------------------------------------------------------
(* The trees graft_from_other is run on *)

\* most nodes of the secondary tree below its root
MaxNodes == 4

SNode(i) == <<"s", i>>

PNode(i) == <<"p", i>>

f__F == <<"f", "_", "_", "F">>

g__G == <<"g", "_", "_", "G">>

g__H == <<"g", "_", "_", "H">>

\* the names the internal nodes of the secondary tree are drawn from: the
\* first two are names of the primary tree, the third is not
SecNames == {f__F, g__G, g__H}

\* the name of a record: the tip of the i-th node
RecordName(i) == <<"r", CHOOSE d \in Digit : d = ToString(i)>>

\* the secondary tree of n nodes whose i-th node has the parent pv[i] (0 is
\* the root) and, when it has children, the name nm[i]; flags as prep_trees
\* leaves them: a tip is keepable, another node is not
RECURSIVE ChildList(_, _, _, _)
ChildList(pv, n, p, i) ==
    IF i > n THEN <<>>
    ELSE (IF pv[i] = p THEN <<SNode(i)>> ELSE <<>>) \o ChildList(pv, n, p, i + 1)

SecTree(n, pv, nm) ==
    LET ids == 0..n
        HasChild(i) == \E j \in 1..n : pv[j] = i
    IN  [root |-> SNode(0),
         nodes |-> {SNode(i) : i \in ids},
         children |-> [x \in {SNode(i) : i \in ids} |->
                          ChildList(pv, n, x[2], 1)],
         parent |-> [x \in {SNode(i) : i \in ids} |->
                          IF x[2] = 0 THEN NoNode ELSE SNode(pv[x[2]])],
         name |-> [x \in {SNode(i) : i \in ids} |->
                          IF x[2] = 0 THEN None
                          ELSE IF HasChild(x[2]) THEN nm[x[2]]
                          ELSE RecordName(x[2])],
         keepable |-> [x \in {SNode(i) : i \in ids} |->
                          x[2] # 0 /\ ~HasChild(x[2])]]

SecTrees ==
    UNION {UNION {
        {SecTree(n, pv, nm) :
            nm \in {f \in [1..n -> SecNames] :
                       \A i \in 1..n :
                          (\A j \in 1..n : pv[j] # i) => f[i] = f__F}} :
        pv \in {f \in [1..n -> 0..(n - 1)] : \A i \in 1..n : f[i] < i}} :
        n \in 1..MaxNodes}

\* the primary tree: root - f__F - g__G - the record G1
PrimTree ==
    LET ns == {PNode(i) : i \in 0..3}
    IN  [root |-> PNode(0),
         nodes |-> ns,
         children |-> [x \in ns |->
             IF x[2] < 3 THEN <<PNode(x[2] + 1)>> ELSE <<>>],
         parent |-> [x \in ns |->
             IF x[2] = 0 THEN NoNode ELSE PNode(x[2] - 1)],
         name |-> [x \in ns |->
             CASE x[2] = 0 -> None
               [] x[2] = 1 -> f__F
               [] x[2] = 2 -> g__G
               [] OTHER -> <<"G", "1">>],
         keepable |-> [x \in ns |-> x[2] = 3]]

PrimLookup == (f__F :> PNode(1)) @@ (g__G :> PNode(2))

TablesIdle == gtdb_tax = {} /\ ltp_tax = {}

PolyIdle == level = 0 /\ todo = {} /\ result = <<>> /\ obs = {}

GraftInit ==
    /\ UniqIdle /\ ReportIdle /\ IndexIdle
    /\ RewriteIdle /\ MapIdle
    /\ pc = "graft_call"
    /\ err = "none"
    /\ TablesIdle
    /\ PolyIdle
    /\ removed = {}
    /\ other \in SecTrees
    /\ gtdb = PrimTree
    /\ lookup = PrimLookup
    /\ order = <<>>
    /\ gi = 0
    /\ other0 = other
    /\ gtdb0 = gtdb

GraftNext ==
    \/ GraftStart
    \/ GraftTip
    \/ GraftMatch
    \/ GraftNoMatch
    \/ GraftReturn

SpecGraft == GraftInit /\ [][GraftNext]_vars

----------------------------------------------------------------------------
(* Claims about graft_from_other *)

\* the nodes of the tree the call was made on that had children
Internal0 == {n \in other0.nodes : n # other0.root /\ ~IsTip(other0, n)}

\* the nodes of the tree the call was made on that graft_from_other looks for
Matched0 == {n \in Internal0 : other0.name[n] \in DOMAIN lookup}

\* the records below n in the tree the call was made on
RecordTips0(n) == {t \in ProperDesc(other0, n) : IsTip(other0, t)}

\* the records below n that are not below a matched node deeper than n
OwnRecordTips0(n) ==
    {t \in RecordTips0(n) :
        \A m \in Matched0 :
            m \in ProperDesc(other0, n) => t \notin ProperDesc(other0, m)}

\* C1 (as claimed): after graft_from_other every internal node of the
\* secondary tree whose name is a key of the lookup has been detached from
\* the secondary tree, and its record tips that are not under a deeper
\* matched node are descendants of the primary node lookup[name]
C1_AllMatchedDetached ==
    pc = "grafted" =>
        \A n \in Matched0 :
            /\ n \notin InTree(other)
            /\ \A t \in OwnRecordTips0(n) :
                  t \in ProperDesc(gtdb, lookup[other0.name[n]])

----------------------------------------------------------------------------
(* The tables get_polyphyletic and ids_of_ambiguity_from_polyphyletic are
   run on *)

\* most rows of the primary table given to get_polyphyletic
MaxPolyRows == 3

\* most rows of the secondary table given to
\* ids_of_ambiguity_from_polyphyletic
MaxIdsRows == 2

\* the label of a level: its rank prefix and a name
Ranked(lvl, nm) == <<LEVELS[lvl], "_", "_">> \o nm

RowId(letter, i) == <<letter, CHOOSE d \in Digit : d = ToString(i)>>

\* what a row of the primary table has at the level that varies (after the
\* rank prefix) and at the species level (after s__)
PolyVariants ==
    << [g |-> <<"X">>, s |-> <<"X", " ", "y">>],
       [g |-> <<"X", "_", "A">>, s |-> <<"X", "_", "A", " ", "y">>],
       [g |-> <<"X", "_", "B">>, s |-> <<"X", " ", "y", "_", "B">>],
       [g |-> <<"Y">>, s |-> <<"Y", " ", "y">>],
       [g |-> <<"Z", "_", "B">>, s |-> <<"Y", " ", "z">>],
       [g |-> <<>>, s |-> <<>>],
       [g |-> <<"X", "_", "a">>, s |-> <<"Y", " ", "y">>],
       [g |-> <<"Y">>, s |-> <<"Y">>],
       [g |-> <<"X", "-", "A", "_", "A", "B">>, s |-> <<"X", "-", "a", " ", "y", "_", "A", "B">>] >>

\* the row of variant i: the labels <rank>__Q, but for level k and species
GtdbPolyRow(k, i) ==
    [id |-> RowId("x", i),
     lin |-> [l \in LevelIdx |->
                 IF l = NumLevels THEN Ranked(l, PolyVariants[i].s)
                 ELSE IF l = k THEN Ranked(l, PolyVariants[i].g)
                 ELSE Ranked(l, <<"Q">>)]]

SubsetsUpTo(S, n) == {T \in SUBSET S : Cardinality(T) >= 1 /\ Cardinality(T) <= n}

PolyTables ==
    UNION {{{GtdbPolyRow(k, i) : i \in T} :
               T \in SubsetsUpTo(DOMAIN PolyVariants, MaxPolyRows)} :
           k \in 1..(NumLevels - 1)}

\* the rows of the secondary table: a label at one level and a species, no
\* rank prefixes
LtpPolyVariants ==
    << [lvl |-> 2, label |-> <<"X">>, species |-> <<"Q", " ", "q">>, explicitly_set |-> FALSE],
       [lvl |-> 2, label |-> <<"X">>, species |-> <<"Q", " ", "q">>, explicitly_set |-> TRUE],
       [lvl |-> 6, label |-> <<"X">>, species |-> <<"Q", " ", "q">>, explicitly_set |-> FALSE],
       [lvl |-> 2, label |-> <<"Q">>, species |-> <<"X", " ", "y">>, explicitly_set |-> FALSE],
       [lvl |-> 2, label |-> <<"Y">>, species |-> <<"Y", " ", "y">>, explicitly_set |-> FALSE],
       [lvl |-> 6, label |-> <<"Z">>, species |-> <<"Y", " ", "z">>, explicitly_set |-> TRUE],
       [lvl |-> 2, label |-> <<"X", "_", "A">>, species |-> <<"X", "_", "A", " ", "y">>, explicitly_set |-> FALSE] >>

LtpPolyRow(i) ==
    [id |-> RowId("y", i),
     lin |-> [l \in LevelIdx |->
                 IF l = NumLevels THEN LtpPolyVariants[i].species
                 ELSE IF l = LtpPolyVariants[i].lvl THEN LtpPolyVariants[i].label
                 ELSE <<"Q">>],
     explicitly_set |-> LtpPolyVariants[i].explicitly_set]

LtpPolyTables ==
    {{LtpPolyRow(i) : i \in T} :
        T \in SubsetsUpTo(DOMAIN LtpPolyVariants, MaxIdsRows)}

\* ids_of_ambiguity_from_polyphyletic(ltp_tax, poly) on what get_polyphyletic
\* returned
IdsOfAmbiguity ==
    /\ UNCHANGED <<uniqVars, reportVars, indexVars>>
    /\ UNCHANGED <<rewriteVars, mapVars>>
    /\ pc = "poly_done"
    /\ \E ltp \in LtpPolyTables :
          /\ ltp_tax' = ltp
          /\ obs' = IdsOfAmbiguityFromPolyphyletic(ltp, result)
    /\ pc' = "ids_done"
    /\ UNCHANGED <<err, gtdb_tax, level, todo, result, removed, treeVars>>

TreeIdle ==
    /\ other = <<>> /\ gtdb = <<>> /\ lookup = <<>> /\ order = <<>> /\ gi = 0
    /\ other0 = <<>> /\ gtdb0 = <<>>

PolyInit ==
    /\ UniqIdle /\ ReportIdle /\ IndexIdle
    /\ RewriteIdle /\ MapIdle
    /\ pc = "start"
    /\ err = "none"
    /\ gtdb_tax \in PolyTables
    /\ ltp_tax = {}
    /\ PolyIdle
    /\ removed = {}
    /\ TreeIdle

PolyNext ==
    \/ PolyStart
    \/ PolySkip
    \/ PolyRaise
    \/ PolyAdd
    \/ PolyPlain
    \/ PolyNextLevel
    \/ PolyReturn
    \/ IdsOfAmbiguity

SpecPoly == PolyInit /\ [][PolyNext]_vars

----------------------------------------------------------------------------
(* Claims about get_polyphyletic and ids_of_ambiguity_from_polyphyletic.
   The labels are described here by their shape, not by the run of the
   patterns. *)

\* where a name carries a polyphyly marker: the index of the "_" that is
\* preceded by name characters only and followed by uppercase letters only
MarkerAt(h) ==
    {e \in 2..(Len(h) - 1) :
        /\ h[e] = "_"
        /\ \A i \in 1..(e - 1) : h[i] \in NameChar
        /\ \A i \in (e + 1)..Len(h) : h[i] \in Upper}

IsMarkedName(h) == MarkerAt(h) # {}

IsPlainName(h) == Len(h) >= 1 /\ \A i \in 1..Len(h) : h[i] \in NameChar

IsName(h) == IsPlainName(h) \/ IsMarkedName(h)

\* a name without its marker
BareOf(h) ==
    IF IsMarkedName(h)
    THEN SubSeq(h, 1, (CHOOSE e \in MarkerAt(h) : TRUE) - 1)
    ELSE h

\* a label without its three characters of rank prefix
NameOf(n) == SubSeq(n, 4, Len(n))

HasRankPrefix(n, letters) ==
    Len(n) >= 3 /\ n[1] \in letters /\ n[2] = "_" /\ n[3] = "_"

GeneralLabelOk(n) == HasRankPrefix(n, GeneralRankChar) /\ IsName(NameOf(n))

SpaceAt(n) == {i \in 1..Len(n) : n[i] = " "}

SpeciesLabelOk(n) ==
    /\ HasRankPrefix(n, {"s"})
    /\ \E i \in SpaceAt(n) :
          IsName(SubSeq(n, 4, i - 1)) /\ IsName(SubSeq(n, i + 1, Len(n)))

GenusHalf(n) == SubSeq(n, 4, (CHOOSE i \in SpaceAt(n) : TRUE) - 1)

EpithetHalf(n) == SubSeq(n, (CHOOSE i \in SpaceAt(n) : TRUE) + 1, Len(n))

SpeciesMarked(n) == IsMarkedName(GenusHalf(n)) \/ IsMarkedName(EpithetHalf(n))

\* the unmarked two-word binomial of a species label
Binomial(n) == BareOf(GenusHalf(n)) \o <<" ">> \o BareOf(EpithetHalf(n))

\* the distinct labels of a level of the table that are more than a prefix
Labels(l) == {n \in Column(gtdb_tax, l) : ~(Len(n) = 3 /\ HasRankPrefix(n, {n[1]}))}

GeneralLevels == 1..(NumLevels - 1)

\* the marked variants of the group of base name b at level l
MarkedVariants(l, b) ==
    {n \in Labels(l) : IsMarkedName(NameOf(n)) /\ BareOf(NameOf(n)) = b}

\* the group of base name b at level l: every label that strips to b
Group(l, b) == {n \in Labels(l) : BareOf(NameOf(n)) = b}

\* C3: ids_of_ambiguity_from_polyphyletic returns exactly the ids of the rows
\* whose explicitly_set flag is false and whose label at one of the seven
\* levels at least is in the ambiguous set of that same level; a row with
\* explicitly_set true is never returned
C3_IdsOfAmbiguityExact ==
    pc = "ids_done" =>
        /\ obs = {r.id : r \in {x \in ltp_tax :
                     /\ x.explicitly_set = FALSE
                     /\ \E l \in LevelIdx : x.lin[l] \in result[l]}}
        /\ \A r \in ltp_tax : r.explicitly_set => r.id \notin obs

\* C3 witness: a call that returns one row and leaves out a row that is
\* explicitly set although its label is ambiguous, and a row whose label is
\* ambiguous at another level only
C3_Witness ==
    /\ pc = "ids_done"
    /\ \E r \in ltp_tax : ~r.explicitly_set /\ r.id \in obs
    /\ \E r \in ltp_tax :
          /\ r.explicitly_set
          /\ \E l \in LevelIdx : r.lin[l] \in result[l]
          /\ r.id \notin obs

\* C4 (as claimed): at the levels other than species, a base name is in the
\* ambiguous set only when its group holds more than one marked variant
C4_OnlyGroupsOfSeveralMarked ==
    pc = "poly_done" =>
        \A l \in GeneralLevels : \A b \in result[l] :
            Cardinality(MarkedVariants(l, b)) > 1

\* C4 (amended): at the levels other than species, the labels are grouped by
\* the label without its marker, and a group contributes its base name to the
\* ambiguous set of the level exactly when it holds at least one marked
\* variant: one marked variant and no other variant is enough
C4_GroupsOfAnyMarked ==
    pc = "poly_done" =>
        \A l \in GeneralLevels :
            /\ \A n \in Labels(l) :
                  BareOf(NameOf(n)) \in result[l]
                      <=> Cardinality(MarkedVariants(l, BareOf(NameOf(n)))) >= 1
            /\ \A b \in result[l] : Group(l, b) # {}

\* C4 witness: a returned base name whose group is one marked variant alone
C4_Witness ==
    /\ pc = "poly_done"
    /\ \E l \in GeneralLevels : \E b \in result[l] :
          Cardinality(Group(l, b)) = 1 /\ Cardinality(MarkedVariants(l, b)) = 1

\* the column of level l is the three labels n, n_A and n_B
IsTriple(l, n) ==
    Column(gtdb_tax, l) = {n, n \o <<"_", "A">>, n \o <<"_", "B">>}

\* C5 (as claimed): given the labels {X, X_A, X_B} at a level, the three
\* labels are all in the ambiguous set of the level
C5_AllThreeLabelsReported ==
    pc = "poly_done" =>
        \A l \in GeneralLevels : \A n \in Labels(l) :
            IsTriple(l, n) =>
                {NameOf(n), NameOf(n) \o <<"_", "A">>, NameOf(n) \o <<"_", "B">>}
                    \subseteq result[l]

\* C5 (amended): whatever the order the labels are met in, given the labels
\* {X, X_A, X_B} at a level the ambiguous set of the level is {X}, the bare
\* name the three labels share (X_A and X_B are not members of it), and given
\* labels of which none carries a marker the set is empty; the sets returned
\* depend on the set of labels only
C5_BareNameReportedAnyOrder ==
    pc = "poly_done" =>
        /\ \A l \in GeneralLevels : \A n \in Labels(l) :
              IsTriple(l, n) => result[l] = {NameOf(n)}
        /\ \A l \in GeneralLevels :
              (\A n \in Labels(l) : IsPlainName(NameOf(n))) => result[l] = {}
        /\ result = GetPolyphyletic(gtdb_tax)

\* C5 witness: the labels {X, X_A, X_B} at a level, met in some order
C5_Witness ==
    /\ pc = "poly_done"
    /\ \E l \in GeneralLevels : \E n \in Labels(l) :
          IsTriple(l, n) /\ result[l] = {NameOf(n)}

\* C6: for every level from domain to genus, get_polyphyletic returns
\* exactly the bare names (rank prefix and uppercase suffix removed) of the
\* distinct labels of the level that carry an uppercase suffix; labels that
\* are a rank prefix only are skipped, a level without a suffixed label maps
\* to the empty set, and a label that does not fit the pattern raises
C6_BareNamesOfSuffixedLabels ==
    /\ pc = "poly_done" =>
          \A l \in GeneralLevels :
              /\ \A n \in Labels(l) : GeneralLabelOk(n)
              /\ result[l] =
                    {BareOf(NameOf(n)) :
                        n \in {m \in Labels(l) : IsMarkedName(NameOf(m))}}
    /\ pc = "raised" =>
          /\ err = "ValueError"
          /\ \E n \in Labels(level) :
                IF level < NumLevels THEN ~GeneralLabelOk(n)
                ELSE ~SpeciesLabelOk(n)

\* C6 witness: a return with a level that holds a prefix-only label, a plain
\* label and a suffixed one, and a level that maps to the empty set
C6_Witness ==
    /\ pc = "poly_done"
    /\ \E l \in GeneralLevels :
          /\ result[l] # {}
          /\ Column(gtdb_tax, l) # Labels(l)
          /\ \E n \in Labels(l) : IsPlainName(NameOf(n))
    /\ \E l \in GeneralLevels : result[l] = {} /\ Labels(l) # {}

\* C7: at the species level the two halves of the binomial are matched
\* independently, and the unmarked binomial is in the ambiguous species set
\* if and only if some species label with that binomial carries a marker on
\* either half
C7_SpeciesEitherHalf ==
    pc = "poly_done" =>
        /\ \A n \in Labels(NumLevels) :
              /\ SpeciesLabelOk(n)
              /\ Binomial(n) \in result[NumLevels]
                    <=> \E m \in Labels(NumLevels) :
                            Binomial(m) = Binomial(n) /\ SpeciesMarked(m)
        /\ result[NumLevels] \subseteq {Binomial(n) : n \in Labels(NumLevels)}

\* C7 witness: a binomial reported for a marker on its epithet half only,
\* another for a marker on its genus half only, and one that is not reported
C7_Witness ==
    /\ pc = "poly_done"
    /\ \E n \in Labels(NumLevels) :
          /\ IsMarkedName(EpithetHalf(n)) /\ ~IsMarkedName(GenusHalf(n))
          /\ \A m \in Labels(NumLevels) :
                Binomial(m) = Binomial(n) => ~IsMarkedName(GenusHalf(m))
          /\ Binomial(n) \in result[NumLevels]
    /\ \E n \in Labels(NumLevels) :
          /\ IsMarkedName(GenusHalf(n)) /\ ~IsMarkedName(EpithetHalf(n))
          /\ Binomial(n) \in result[NumLevels]
    /\ \E n \in Labels(NumLevels) : Binomial(n) \notin result[NumLevels]

----------------------------------------------------------------------------
(* check_overlap and check_consistent_parents *)

\* the names check_overlap lets two levels share
permissible ==
    {<<"U", "B", "A", "8", "3", "4", "6">>,
     <<"A", "K", "S", "1">>,
     <<"J", "A", "A", "Y", "U", "W", "0", "1">>,
     <<"D", "S", "M", "-", "1", "9", "6", "1", "0">>,
     <<"U", "B", "A", "1", "0", "5", "7", "5">>,
     <<"D", "S", "M", "-", "1", "7", "7", "8", "1">>,
     <<"S", "K", "-", "Y", "3">>,
     <<"D", "S", "M", "-", "2", "2", "6", "5", "3">>,
     <<"J", "C", "2", "2", "8">>,
     <<"D", "S", "M", "-", "1", "0", "0", "2", "7", "5">>,
     <<"D", "S", "M", "-", "1", "6", "5", "0", "0">>,
     <<"H", "P", "1", "2">>,
     <<"D", "S", "M", "-", "2", "6", "4", "0", "7">>,
     <<"D", "Y", "2", "2", "6", "1", "3">>,
     <<"U", "B", "A", "6", "4", "2", "9">>}

\* (set(df[i]) - set([""])) & (set(df[j]) - set([""]))
Common(df, i, j) == (Column(df, i) \ {<<>>}) \cap (Column(df, j) \ {<<>>})

\* what one iteration of the two loops of check_overlap does, i # j
OverlapPair(g, l, i, j) ==
    IF Common(g, i, j) \subseteq permissible THEN "continue"
    ELSE IF Cardinality(Common(g, i, j)) # 0 THEN "gtdb conflict"
    ELSE IF Common(l, i, j) \subseteq permissible THEN "continue"
    ELSE IF Cardinality(Common(l, i, j)) # 0 THEN "ltp conflict"
    ELSE "continue"

\* the loops of check_overlap from the iteration numbered p (i the outer
\* level, j the inner one): the first conflict that raises, or "none"
RECURSIVE OverlapFrom(_, _, _)
OverlapFrom(g, l, p) ==
    LET i == (p \div NumLevels) + 1
        j == (p % NumLevels) + 1
    IN  IF p >= NumLevels * NumLevels THEN "none"
        ELSE IF i = j \/ OverlapPair(g, l, i, j) = "continue"
             THEN OverlapFrom(g, l, p + 1)
        ELSE OverlapPair(g, l, i, j)

CheckOverlap(g, l) == OverlapFrom(g, l, 0)

\* len(grp[LEVELS[idx-1]].unique()) of the group of name at level idx
ParentCount(df, idx, name) ==
    Cardinality({r.lin[idx - 1] : r \in {x \in df : x.lin[idx] = name}})

\* the first loop of an iteration of check_consistent_parents raises
GtdbBad(g, idx) ==
    \E name \in Column(g, idx) :
        ~IsRankOnly(name) /\ ParentCount(g, idx, name) # 1

\* variant: the groups of the secondary table are not looked at
LtpBad_Skipped(l, idx) == FALSE

\* the second loop of an iteration of check_consistent_parents raises
LtpBad(l, idx) ==
    \E name \in Column(l, idx) :
        name # <<>> /\ ParentCount(l, idx, name) # 1

\* the loop of check_consistent_parents from level idx on: the table whose
\* group raises first, or "none"
RECURSIVE ParentsFrom(_, _, _)
ParentsFrom(g, l, idx) ==
    IF idx > NumLevels THEN "none"
    ELSE IF GtdbBad(g, idx) THEN "gtdb"
    ELSE IF LtpBad(l, idx) THEN "ltp"
    ELSE ParentsFrom(g, l, idx + 1)

\* variant: only the primary table can raise
CheckConsistentParents_GtdbOnly(g, l) ==
    IF \E idx \in 2..NumLevels : GtdbBad(g, idx) THEN "gtdb" ELSE "none"

\* enumerate(LEVELS[1:], 1): not domain
CheckConsistentParents(g, l) == ParentsFrom(g, l, 2)

\* check_overlap raises
OverlapRaise ==
    /\ UNCHANGED <<uniqVars, reportVars, indexVars>>
    /\ UNCHANGED <<rewriteVars, mapVars>>
    /\ pc = "start"
    /\ CheckOverlap(gtdb_tax, ltp_tax) # "none"
    /\ pc' = "overlap_raised"
    /\ err' = CheckOverlap(gtdb_tax, ltp_tax)
    /\ UNCHANGED <<tabVars, polyVars, removed, treeVars>>

\* check_overlap returns
OverlapReturn ==
    /\ UNCHANGED <<uniqVars, reportVars, indexVars>>
    /\ UNCHANGED <<rewriteVars, mapVars>>
    /\ pc = "start"
    /\ CheckOverlap(gtdb_tax, ltp_tax) = "none"
    /\ pc' = "overlap_returned"
    /\ UNCHANGED <<err, tabVars, polyVars, removed, treeVars>>

\* check_consistent_parents raises for a group of the primary table
ParentsRaiseGtdb ==
    /\ UNCHANGED <<uniqVars, reportVars, indexVars>>
    /\ UNCHANGED <<rewriteVars, mapVars>>
    /\ pc = "start"
    /\ CheckConsistentParents(gtdb_tax, ltp_tax) = "gtdb"
    /\ pc' = "parents_raised"
    /\ err' = "gtdb parents"
    /\ UNCHANGED <<tabVars, polyVars, removed, treeVars>>

\* check_consistent_parents raises for a group of the secondary table
ParentsRaiseLtp ==
    /\ UNCHANGED <<uniqVars, reportVars, indexVars>>
    /\ UNCHANGED <<rewriteVars, mapVars>>
    /\ pc = "start"
    /\ CheckConsistentParents(gtdb_tax, ltp_tax) = "ltp"
    /\ pc' = "parents_raised"
    /\ err' = "ltp parents"
    /\ UNCHANGED <<tabVars, polyVars, removed, treeVars>>

\* check_consistent_parents returns
ParentsReturn ==
    /\ UNCHANGED <<uniqVars, reportVars, indexVars>>
    /\ UNCHANGED <<rewriteVars, mapVars>>
    /\ pc = "start"
    /\ CheckConsistentParents(gtdb_tax, ltp_tax) = "none"
    /\ pc' = "parents_returned"
    /\ UNCHANGED <<err, tabVars, polyVars, removed, treeVars>>

----------------------------------------------------------------------------
(* The tables the two checks are run on: rows that differ at two adjacent
   levels k and k + 1; the levels above hold one name each, the levels below
   are not assigned *)

\* most rows of each table given to the checks
MaxValRows == 2

\* the primary rows: the labels of levels k and k + 1, with the rank prefix
\* of the level unless raw
GtdbValVariants ==
    << [rawa |-> FALSE, a |-> <<"F">>, rawb |-> FALSE, b |-> <<"G">>],
       [rawa |-> FALSE, a |-> <<"F", "2">>, rawb |-> FALSE, b |-> <<"G">>],
       [rawa |-> FALSE, a |-> <<"F">>, rawb |-> FALSE, b |-> <<>>],
       [rawa |-> FALSE, a |-> <<"F", "2">>, rawb |-> FALSE, b |-> <<>>],
       [rawa |-> TRUE, a |-> <<"A", "K", "S", "1">>, rawb |-> TRUE, b |-> <<"A", "K", "S", "1">>],
       [rawa |-> TRUE, a |-> <<"X">>, rawb |-> FALSE, b |-> <<"G", "2">>],
       [rawa |-> FALSE, a |-> <<"F", "3">>, rawb |-> TRUE, b |-> <<"X">>] >>

GtdbValRow(k, i) ==
    LET v == GtdbValVariants[i]
    IN  [id |-> RowId("x", i),
         lin |-> [l \in LevelIdx |->
             IF l < k THEN Ranked(l, <<"Q">>)
             ELSE IF l = k THEN (IF v.rawa THEN v.a ELSE Ranked(l, v.a))
             ELSE IF l = k + 1 THEN (IF v.rawb THEN v.b ELSE Ranked(l, v.b))
             ELSE Ranked(l, <<>>)]]

\* the secondary rows: the names of levels k and k + 1
LtpValVariants ==
    << [a |-> <<"F">>, b |-> <<"G">>],
       [a |-> <<"F", "2">>, b |-> <<"G">>],
       [a |-> <<"F">>, b |-> <<>>],
       [a |-> <<"F", "2">>, b |-> <<>>],
       [a |-> <<"A", "K", "S", "1">>, b |-> <<"A", "K", "S", "1">>],
       [a |-> <<"X">>, b |-> <<"G", "2">>],
       [a |-> <<"F", "3">>, b |-> <<"X">>] >>

LtpValRow(k, i) ==
    LET v == LtpValVariants[i]
    IN  [id |-> RowId("y", i),
         lin |-> [l \in LevelIdx |->
             IF l < k THEN <<"Q", LEVELS[l]>>
             ELSE IF l = k THEN v.a
             ELSE IF l = k + 1 THEN v.b
             ELSE <<>>],
         explicitly_set |-> FALSE]

\* the tables of the rows T whose levels that differ are k and k + 1
GtdbValTable(k, T) == {GtdbValRow(k, i) : i \in T}

LtpValTable(k, T) == {LtpValRow(k, i) : i \in T}

ValInit ==
    /\ UniqIdle /\ ReportIdle /\ IndexIdle
    /\ RewriteIdle /\ MapIdle
    /\ pc = "start"
    /\ err = "none"
    /\ \E k \in 1..(NumLevels - 1) :
          /\ \E T \in SubsetsUpTo(DOMAIN GtdbValVariants, MaxValRows) :
                gtdb_tax = GtdbValTable(k, T)
          /\ \E T \in SubsetsUpTo(DOMAIN LtpValVariants, MaxValRows) :
                ltp_tax = LtpValTable(k, T)
    /\ PolyIdle
    /\ removed = {}
    /\ TreeIdle

ValNext ==
    \/ OverlapRaise
    \/ OverlapReturn
    \/ ParentsRaiseGtdb
    \/ ParentsRaiseLtp
    \/ ParentsReturn

SpecValidate == ValInit /\ [][ValNext]_vars

----------------------------------------------------------------------------
(* Claims about the two checks *)

\* a label that names something: not empty, not a rank prefix alone
Assigned(n) == n # <<>> /\ ~(Len(n) = 3 /\ n[2] = "_" /\ n[3] = "_")

\* every assigned label of a level below domain has one parent label
ConsistentParents(df) ==
    \A r \in 2..NumLevels : \A x \in df : \A y \in df :
        (Assigned(x.lin[r]) /\ x.lin[r] = y.lin[r])
            => x.lin[r - 1] = y.lin[r - 1]

\* C8: if check_consistent_parents returns, then in both tables all the rows
\* that carry an assigned label at a level r > 0 have the same label at
\* level r - 1; and it raises whenever an assigned label has two parents
C8_ReturnsOnlyIfConsistent ==
    /\ pc = "parents_returned" =>
          ConsistentParents(gtdb_tax) /\ ConsistentParents(ltp_tax)
    /\ (pc \in {"parents_returned", "parents_raised"}
        /\ ~(ConsistentParents(gtdb_tax) /\ ConsistentParents(ltp_tax)))
          => pc = "parents_raised" /\ err \in {"gtdb parents", "ltp parents"}

\* C8 witness: the check returns on tables where labels are shared by rows,
\* one of them a label that is not assigned and has two parents
C8_Witness ==
    /\ pc = "parents_returned"
    /\ \E r \in 2..NumLevels : \E x \in gtdb_tax : \E y \in gtdb_tax :
          x # y /\ x.lin[r] = y.lin[r] /\ Assigned(x.lin[r])
    /\ \E r \in 2..NumLevels : \E x \in ltp_tax : \E y \in ltp_tax :
          x # y /\ x.lin[r] = y.lin[r] /\ ~Assigned(x.lin[r])
             /\ x.lin[r - 1] # y.lin[r - 1]

\* no label that is not allowed is used at two levels of the table
NoCollision(df) ==
    \A i \in LevelIdx : \A j \in LevelIdx :
        i # j => Common(df, i, j) \subseteq permissible

\* C10 (as claimed): check_overlap detects, in each of the two tables, a
\* label used at two levels of the table and raises for it unless every such
\* label is allowed; so when it returns neither table has such a label
C10_ReturnsOnlyIfNoCollision ==
    pc = "overlap_returned" => NoCollision(gtdb_tax) /\ NoCollision(ltp_tax)

----------------------------------------------------------------------------
(* harmonize: the trees of the two tables *)

\* the position of a row in its table: the rows are numbered by their ids
RowNum(r) == CHOOSE i \in 0..9 : ToString(i) = r.id[2]

\* the rows of a table in the order of the table
RECURSIVE SortedRows(_)
SortedRows(df) ==
    IF df = {} THEN <<>>
    ELSE LET first == CHOOSE r \in df : \A x \in df : RowNum(r) <= RowNum(x)
         IN  <<first>> \o SortedRows(df \ {first})

\* the nodes make_consensus_tree appends below the node of path p, in the
\* order of the rows that made it create them (cur_node.append(new_node))
RECURSIVE ChildPaths(_, _, _, _)
ChildPaths(seq, p, i, acc) ==
    IF i > Len(seq) THEN acc
    ELSE LET q == SubSeq(seq[i].lin, 1, Len(p) + 1)
         IN  IF SubSeq(seq[i].lin, 1, Len(p)) = p /\ q \notin SeqToSet(acc)
             THEN ChildPaths(seq, p, i + 1, Append(acc, q))
             ELSE ChildPaths(seq, p, i + 1, acc)

\* cur_node.append(TreeNode(name=tips[idx])) below the node of the full
\* lineage p
RECURSIVE TipList(_, _, _)
TipList(seq, p, i) ==
    IF i > Len(seq) THEN <<>>
    ELSE (IF seq[i].lin = p THEN << <<"t", seq[i].id>> >> ELSE <<>>)
         \o TipList(seq, p, i + 1)

\* the tree of make_consensus_tree(for_consensus, tips=list(df['id'])): one
\* node per distinct prefix of a lineage, one tip per row; tag tells the
\* nodes of the two trees apart.  No node has the attribute keepable yet.
MakeConsensusTree(df, tag) ==
    LET seq == SortedRows(df)
        inner == {<<tag, SubSeq(r.lin, 1, l)>> : r \in df, l \in 0..NumLevels}
        all == inner \cup {<<"t", r.id>> : r \in df}
        Wrap(q) == <<tag, q>>
    IN  [root |-> <<tag, <<>>>>,
         nodes |-> all,
         children |-> [x \in all |->
             IF x[1] = "t" THEN <<>>
             ELSE IF Len(x[2]) = NumLevels THEN TipList(seq, x[2], 1)
             ELSE [i \in DOMAIN ChildPaths(seq, x[2], 1, <<>>) |->
                      Wrap(ChildPaths(seq, x[2], 1, <<>>)[i])]],
         parent |-> [x \in all |->
             IF x[1] = "t"
             THEN <<tag, (CHOOSE r \in df : r.id = x[2]).lin>>
             ELSE IF Len(x[2]) = 0 THEN NoNode
             ELSE <<tag, SubSeq(x[2], 1, Len(x[2]) - 1)>>],
         name |-> [x \in all |->
             IF x[1] = "t" THEN x[2]
             ELSE IF Len(x[2]) = 0 THEN None
             ELSE x[2][Len(x[2])]],
         keepable |-> [x \in all |-> FALSE]]

\* god_node.traverse(): the node, then the children's subtrees in order
RECURSIVE Preorder(_, _)
RECURSIVE PreorderOfList(_, _)
Preorder(t, n) == <<n>> \o PreorderOfList(t, t.children[n])
PreorderOfList(t, list) ==
    IF list = <<>> THEN <<>>
    ELSE Preorder(t, Head(list)) \o PreorderOfList(t, Tail(list))

\* '__' in name and name.split('__')[1] == ''
RankWithoutName(name) ==
    /\ FindSep(name, 1) # 0
    /\ \/ FindSep(name, 1) + 2 > Len(name)
       \/ FindSep(name, FindSep(name, 1) + 2) = FindSep(name, 1) + 2

\* the lookup make_consensus_tree returns: lookup[node.name] = node over the
\* traversal, so the last node of a name is the one kept
MakeLookup(t, check_for_rank) ==
    LET pre == Preorder(t, t.root)
        Listed(i) == /\ t.name[pre[i]] # None
                     /\ ~(check_for_rank /\ RankWithoutName(t.name[pre[i]]))
        idxs == {i \in DOMAIN pre : Listed(i)}
    IN  [nm \in {t.name[pre[i]] : i \in idxs} |->
            pre[CHOOSE i \in idxs :
                   /\ t.name[pre[i]] = nm
                   /\ \A j \in idxs : t.name[pre[j]] = nm => j <= i]]

\* format_name(LEVELS[node.Rank], node.name), node.Rank counted from 0
format_name(lvl, name) == <<LEVELS[lvl], "_", "_">> \o name

\* prep_trees on the secondary tree: tips are keepable, the other nodes get
\* their rank prefix
PrepLtp(t) ==
    [t EXCEPT
        !.keepable = [x \in t.nodes |-> x # t.root /\ IsTip(t, x)],
        !.name = [x \in t.nodes |->
            IF x = t.root \/ IsTip(t, x) THEN t.name[x]
            ELSE format_name(Len(x[2]), t.name[x])]]

\* prep_trees on the primary tree: all tips of gtdb are keepable
PrepGtdb(t) ==
    [t EXCEPT !.keepable = [x \in t.nodes |-> x \in Tips(t)]]

----------------------------------------------------------------------------
(* harmonize, from the two parsed tables on *)

\* check_species_labels(ltp_tax): the rows of iterrows() are copies (the table
\* has columns of several dtypes), so the assignment to row['species'] does
\* not reach the table
HarmSpeciesLabels ==
    /\ UNCHANGED <<uniqVars, reportVars, indexVars>>
    /\ UNCHANGED <<rewriteVars, mapVars>>
    /\ pc = "start"
    /\ pc' = "h_overlap"
    /\ UNCHANGED <<err, tabVars, polyVars, removed, treeVars>>

\* check_overlap(gtdb_tax, ltp_tax) raises: the run ends
HarmOverlapRaise ==
    /\ UNCHANGED <<uniqVars, reportVars, indexVars>>
    /\ UNCHANGED <<rewriteVars, mapVars>>
    /\ pc = "h_overlap"
    /\ CheckOverlap(gtdb_tax, ltp_tax) # "none"
    /\ pc' = "raised"
    /\ err' = CheckOverlap(gtdb_tax, ltp_tax)
    /\ UNCHANGED <<tabVars, polyVars, removed, treeVars>>

HarmOverlapReturn ==
    /\ UNCHANGED <<uniqVars, reportVars, indexVars>>
    /\ UNCHANGED <<rewriteVars, mapVars>>
    /\ pc = "h_overlap"
    /\ CheckOverlap(gtdb_tax, ltp_tax) = "none"
    /\ pc' = "h_poly"
    /\ UNCHANGED <<err, tabVars, polyVars, removed, treeVars>>

\* poly = get_polyphyletic(gtdb_tax) raises: the run ends
HarmPolyRaise ==
    /\ UNCHANGED <<uniqVars, reportVars, indexVars>>
    /\ UNCHANGED <<rewriteVars, mapVars>>
    /\ pc = "h_poly"
    /\ GetPolyphyleticRaises(gtdb_tax)
    /\ pc' = "raised"
    /\ err' = "ValueError"
    /\ UNCHANGED <<tabVars, polyVars, removed, treeVars>>

HarmPolyReturn ==
    /\ UNCHANGED <<uniqVars, reportVars, indexVars>>
    /\ UNCHANGED <<rewriteVars, mapVars>>
    /\ pc = "h_poly"
    /\ ~GetPolyphyleticRaises(gtdb_tax)
    /\ result' = GetPolyphyletic(gtdb_tax)
    /\ pc' = "h_ids"
    /\ UNCHANGED <<err, tabVars, level, todo, obs, removed, treeVars>>

\* poly_ids_in_ltp = ids_of_ambiguity_from_polyphyletic(ltp_tax, poly)
HarmIds ==
    /\ UNCHANGED <<uniqVars, reportVars, indexVars>>
    /\ UNCHANGED <<rewriteVars, mapVars>>
    /\ pc = "h_ids"
    /\ obs' = IdsOfAmbiguityFromPolyphyletic(ltp_tax, result)
    /\ pc' = "h_write"
    /\ UNCHANGED <<err, tabVars, level, todo, result, removed, treeVars>>

\* ltp_tax_to_write = ltp_tax[ltp_tax['id'].isin(poly_ids_in_ltp)]
LtpTaxToWrite(df, ids) == {r \in df : r.id \in ids}

\* variant: no record is dropped
LtpIntegrated_KeepAll(df, to_write) == df

\* ltp_tax[~ltp_tax['id'].isin(ltp_tax_to_write['id'])]
LtpIntegrated(df, to_write) == {r \in df : r.id \notin {w.id : w \in to_write}}

\* the records of ltp_tax_to_write go to output + '.removed_ltp_taxa', one
\* line per record
HarmWriteRemoved ==
    /\ UNCHANGED <<uniqVars, reportVars, indexVars>>
    /\ UNCHANGED <<rewriteVars, mapVars>>
    /\ pc = "h_write"
    /\ removed' = LtpTaxToWrite(ltp_tax, obs)
    /\ pc' = "h_filter"
    /\ UNCHANGED <<err, tabVars, polyVars, treeVars>>

\* ltp_tax is replaced by the records which were integrated
HarmFilter ==
    /\ UNCHANGED <<uniqVars, reportVars, indexVars>>
    /\ UNCHANGED <<rewriteVars, mapVars>>
    /\ pc = "h_filter"
    /\ ltp_tax' = LtpIntegrated(ltp_tax, removed)
    /\ pc' = "h_parents"
    /\ UNCHANGED <<err, gtdb_tax, polyVars, removed, treeVars>>

\* check_consistent_parents(gtdb_tax, ltp_tax) raises ValueError for a group
\* of the primary table: the run ends
HarmParentsRaiseGtdb ==
    /\ UNCHANGED <<uniqVars, reportVars, indexVars>>
    /\ UNCHANGED <<rewriteVars, mapVars>>
    /\ pc = "h_parents"
    /\ CheckConsistentParents(gtdb_tax, ltp_tax) = "gtdb"
    /\ pc' = "raised"
    /\ err' = "gtdb parents"
    /\ UNCHANGED <<tabVars, polyVars, removed, treeVars>>

\* it raises ValueError for a group of the secondary table: the run ends
HarmParentsRaiseLtp ==
    /\ UNCHANGED <<uniqVars, reportVars, indexVars>>
    /\ UNCHANGED <<rewriteVars, mapVars>>
    /\ pc = "h_parents"
    /\ CheckConsistentParents(gtdb_tax, ltp_tax) = "ltp"
    /\ pc' = "raised"
    /\ err' = "ltp parents"
    /\ UNCHANGED <<tabVars, polyVars, removed, treeVars>>

HarmParentsReturn ==
    /\ UNCHANGED <<uniqVars, reportVars, indexVars>>
    /\ UNCHANGED <<rewriteVars, mapVars>>
    /\ pc = "h_parents"
    /\ CheckConsistentParents(gtdb_tax, ltp_tax) = "none"
    /\ pc' = "h_trees"
    /\ UNCHANGED <<err, tabVars, polyVars, removed, treeVars>>

\* construct taxonomy trees: gtdb_tree, lookup (check_for_rank=True) and
\* ltp_tree (its lookup is not used)
HarmTrees ==
    /\ UNCHANGED <<uniqVars, reportVars, indexVars>>
    /\ UNCHANGED <<rewriteVars, mapVars>>
    /\ pc = "h_trees"
    /\ gtdb' = MakeConsensusTree(gtdb_tax, "g")
    /\ lookup' = MakeLookup(MakeConsensusTree(gtdb_tax, "g"), TRUE)
    /\ other' = MakeConsensusTree(ltp_tax, "n")
    /\ pc' = "h_prep"
    /\ UNCHANGED <<err, tabVars, polyVars, removed, order, gi, other0, gtdb0>>

\* prep_trees(gtdb_tree, ltp_tree); graft_from_other is called next
HarmPrepTrees ==
    /\ UNCHANGED <<uniqVars, reportVars, indexVars>>
    /\ UNCHANGED <<rewriteVars, mapVars>>
    /\ pc = "h_prep"
    /\ gtdb' = PrepGtdb(gtdb)
    /\ other' = PrepLtp(other)
    /\ pc' = "graft_call"
    /\ UNCHANGED <<err, tabVars, polyVars, removed, lookup, order, gi,
                   other0, gtdb0>>

\* graft_from_other has returned: the lineages of the tips of gtdb_tree are
\* written to output
HarmOutput ==
    /\ UNCHANGED <<uniqVars, reportVars, indexVars>>
    /\ UNCHANGED <<rewriteVars, mapVars>>
    /\ pc = "grafted"
    /\ pc' = "h_done"
    /\ UNCHANGED <<err, tabVars, polyVars, removed, treeVars>>

----------------------------------------------------------------------------
(* The tables harmonize is run on: one domain, phylum, class and order; the
   rows differ in family, genus and species *)

\* most rows of the primary table, and most rows of the secondary table next
\* to its first row
MaxHarmRows == 2

HarmUpper == << <<"B">>, <<"P">>, <<"C">>, <<"O">> >>

\* family, genus and species of the primary rows, as written in the table
GtdbHarmVariants ==
    << [f |-> <<"f", "_", "_", "F">>, g |-> <<"g", "_", "_", "X">>,
        s |-> <<"s", "_", "_", "X", " ", "y">>],
       [f |-> <<"f", "_", "_", "F">>, g |-> <<"g", "_", "_", "X", "_", "A">>,
        s |-> <<"s", "_", "_", "X", "_", "A", " ", "y">>],
       [f |-> <<"f", "_", "_", "F">>, g |-> <<"g", "_", "_", "Y">>,
        s |-> <<"s", "_", "_", "Y", " ", "y">>],
       [f |-> <<"f", "_", "_", "F", "2">>, g |-> <<"g", "_", "_", "Y">>,
        s |-> <<"s", "_", "_", "Y", " ", "z">>],
       [f |-> <<"f", "_", "_", "F">>, g |-> <<"g", "_", "_", "Z">>,
        s |-> <<"s", "_", "_", "Z">>],
       [f |-> <<"V">>, g |-> <<"V">>,
        s |-> <<"s", "_", "_", "V", " ", "v">>] >>

GtdbHarmRow(i) ==
    [id |-> RowId("x", i),
     lin |-> [l \in LevelIdx |->
                 IF l <= 4 THEN Ranked(l, HarmUpper[l])
                 ELSE IF l = 5 THEN GtdbHarmVariants[i].f
                 ELSE IF l = 6 THEN GtdbHarmVariants[i].g
                 ELSE GtdbHarmVariants[i].s]]

\* family, genus and species of the secondary rows
LtpHarmVariants ==
    << [f |-> <<"F">>, g |-> <<"X">>, s |-> <<"X", " ", "y">>,
        explicitly_set |-> FALSE],
       [f |-> <<"F">>, g |-> <<"X">>, s |-> <<"X", " ", "y">>,
        explicitly_set |-> TRUE],
       [f |-> <<"F">>, g |-> <<"Y">>, s |-> <<"Y", " ", "w">>,
        explicitly_set |-> FALSE],
       [f |-> <<"F", "2">>, g |-> <<"Y">>, s |-> <<"Y", " ", "v">>,
        explicitly_set |-> FALSE],
       [f |-> <<"K">>, g |-> <<>>, s |-> <<>>,
        explicitly_set |-> FALSE],
       [f |-> <<"F">>, g |-> <<"F">>, s |-> <<"F", " ", "f">>,
        explicitly_set |-> FALSE] >>

\* the first row of every secondary table: a genus the primary table lacks
LtpHarmFirst == [f |-> <<"F">>, g |-> <<"W">>, s |-> <<"W", " ", "w">>,
                 explicitly_set |-> FALSE]

LtpHarmRow(i) ==
    LET v == IF i = 0 THEN LtpHarmFirst ELSE LtpHarmVariants[i]
    IN  [id |-> RowId("y", i),
         lin |-> [l \in LevelIdx |->
                     IF l <= 4 THEN HarmUpper[l]
                     ELSE IF l = 5 THEN v.f
                     ELSE IF l = 6 THEN v.g
                     ELSE v.s],
         explicitly_set |-> v.explicitly_set]

GtdbHarmTables ==
    {{GtdbHarmRow(i) : i \in T} :
        T \in SubsetsUpTo(DOMAIN GtdbHarmVariants, MaxHarmRows)}

LtpHarmTables ==
    {{LtpHarmRow(i) : i \in T \cup {0}} :
        T \in {U \in SUBSET DOMAIN LtpHarmVariants : Cardinality(U) <= MaxHarmRows}}

HarmInit ==
    /\ UniqIdle /\ ReportIdle /\ IndexIdle
    /\ RewriteIdle /\ MapIdle
    /\ pc = "start"
    /\ err = "none"
    /\ gtdb_tax \in GtdbHarmTables
    /\ ltp_tax \in LtpHarmTables
    /\ PolyIdle
    /\ removed = {}
    /\ TreeIdle

HarmNext ==
    \/ HarmSpeciesLabels
    \/ HarmOverlapRaise
    \/ HarmOverlapReturn
    \/ HarmPolyRaise
    \/ HarmPolyReturn
    \/ HarmIds
    \/ HarmWriteRemoved
    \/ HarmFilter
    \/ HarmParentsRaiseGtdb
    \/ HarmParentsRaiseLtp
    \/ HarmParentsReturn
    \/ HarmTrees
    \/ HarmPrepTrees
    \/ GraftStart
    \/ GraftTip
    \/ GraftMatch
    \/ GraftNoMatch
    \/ GraftReturn
    \/ HarmOutput

SpecHarmonize == HarmInit /\ [][HarmNext]_vars

----------------------------------------------------------------------------
(* Claims about harmonize *)

\* the ambiguous set of a level, from the shape of the primary labels
AmbiguousAt(l) ==
    IF l < NumLevels
    THEN {BareOf(NameOf(n)) : n \in {m \in Labels(l) : IsMarkedName(NameOf(m))}}
    ELSE {Binomial(n) :
             n \in {m \in Labels(l) : SpeciesLabelOk(m) /\ SpeciesMarked(m)}}

\* a secondary record with an ambiguous label that was not explicitly set
Flagged(r) ==
    /\ r.explicitly_set = FALSE
    /\ \E l \in LevelIdx : r.lin[l] \in AmbiguousAt(l)

\* the run is past the removal of the ambiguous records
RemovalDone ==
    \/ pc \in {"h_parents", "h_trees", "h_prep", "graft_call", "graft",
               "grafted", "h_done"}
    \/ pc = "raised" /\ err \in {"gtdb parents", "ltp parents"}

\* the two trees exist
TreesBuilt == pc \in {"h_prep", "graft_call", "graft", "grafted", "h_done"}

\* C2: in harmonize, a secondary record with a label in the ambiguous set of
\* its level whose lineage was not explicitly set is written to the removed
\* output and is out of the secondary table before the consistency check, the
\* construction of the trees and the grafting; it is never a node of the
\* secondary tree or of the merged primary tree, whatever the primary tree
\* holds for its lineage
C2_AmbiguousRecordsRemoved ==
    \A r \in ltp_tax \cup removed :
        Flagged(r) =>
            /\ RemovalDone => r \in removed /\ r \notin ltp_tax
            /\ TreesBuilt => /\ <<"t", r.id>> \notin gtdb.nodes
                             /\ <<"t", r.id>> \notin other.nodes

\* C2 witness: a finished run that removed a record although the primary
\* tree has the nodes of its genus and of its species, and that grafted
\* another secondary record
C2_Witness ==
    /\ pc = "h_done"
    /\ \E r \in removed :
          /\ Flagged(r)
          /\ format_name(6, r.lin[6]) \in DOMAIN lookup
          /\ format_name(7, r.lin[7]) \in DOMAIN lookup
          /\ <<"t", r.id>> \notin Tips(gtdb)
    /\ \E q \in ltp_tax : <<"t", q.id>> \in Tips(gtdb)

\* C9 (as claimed): a label with two parents in the secondary table is not
\* fatal: the run does not end on it
C9_SecondaryViolationTolerated ==
    ~(pc = "raised" /\ err = "ltp parents")

\* C9 (amended): a label with two parents is fatal in the primary table and
\* in the secondary table alike (the secondary table as it is after the
\* removal of the ambiguous records): the run ends with a ValueError before
\* any tree is built, so trees are built from consistent tables only
C9_ViolationFatalInBoth ==
    /\ (pc = "h_trees" \/ TreesBuilt) =>
          ConsistentParents(gtdb_tax) /\ ConsistentParents(ltp_tax)
    /\ (pc = "raised" /\ err \in {"gtdb parents", "ltp parents"}) =>
          other = <<>> /\ gtdb = <<>>

\* C9 witness: the run ended on the secondary table, the primary one being
\* consistent
C9_Witness ==
    /\ pc = "raised"
    /\ err = "ltp parents"
    /\ ConsistentParents(gtdb_tax)
    /\ ~ConsistentParents(ltp_tax)

----------------------------------------------------------------------------
(* check_species_labels *)

\* what the loop of check_species_labels does to a row when the assignment
\* row['species'] = "" reaches the table
BlankSpecies(r) ==
    IF r.lin[NumLevels] # <<>> /\ r.lin[NumLevels - 1] = <<>>
    THEN [r EXCEPT !.lin[NumLevels] = <<>>]
    ELSE r

\* the rows of iterrows() are copies of the rows of the table: the
\* assignment is lost and the table is as it was
CheckSpeciesLabelsCopy ==
    /\ UNCHANGED <<uniqVars, reportVars, indexVars>>
    /\ UNCHANGED <<rewriteVars, mapVars>>
    /\ pc = "start"
    /\ pc' = "labels_done"
    /\ UNCHANGED <<err, tabVars, polyVars, removed, treeVars>>

\* the rows of iterrows() are views of the table (a table of one dtype):
\* the assignment reaches the table
CheckSpeciesLabelsView ==
    /\ UNCHANGED <<uniqVars, reportVars, indexVars>>
    /\ UNCHANGED <<rewriteVars, mapVars>>
    /\ pc = "start"
    /\ pc' = "labels_done"
    /\ ltp_tax' = {BlankSpecies(r) : r \in ltp_tax}
    /\ UNCHANGED <<err, gtdb_tax, polyVars, removed, treeVars>>

\* most rows of the table given to check_species_labels
MaxLabelRows == 1

\* a row whose level l has a name when named[l], and is empty otherwise
LabelRow(i, named) ==
    [id |-> RowId("y", i),
     lin |-> [l \in LevelIdx |-> IF named[l] THEN <<"N", LEVELS[l]>> ELSE <<>>],
     explicitly_set |-> FALSE]

LabelsInit ==
    /\ UniqIdle /\ ReportIdle /\ IndexIdle
    /\ RewriteIdle /\ MapIdle
    /\ pc = "start"
    /\ err = "none"
    /\ gtdb_tax = {}
    /\ \E n \in 1..MaxLabelRows :
          \E named \in [1..n -> [LevelIdx -> BOOLEAN]] :
              ltp_tax = {LabelRow(i, named[i]) : i \in 1..n}
    /\ PolyIdle
    /\ removed = {}
    /\ TreeIdle

LabelsNext ==
    \/ CheckSpeciesLabelsCopy
    \/ CheckSpeciesLabelsView

SpecLabels == LabelsInit /\ [][LabelsNext]_vars

\* C11 (as claimed): after check_species_labels has run on the secondary
\* table, no row has a name at a level while the level above it is empty
C11_RankedLineageEnforced ==
    pc = "labels_done" =>
        \A r \in ltp_tax : \A l \in 2..NumLevels :
            r.lin[l] # <<>> => r.lin[l - 1] # <<>>

----------------------------------------------------------------------------
(* parse_lineage *)

\* the characters str.strip() removes, of those the strings here are made of
Whitespace == {" "}

\* x.split(';'): the parts between the separators, one at least
RECURSIVE SplitOn(_, _, _)
SplitOn(s, sep, cur) ==
    IF s = <<>> THEN <<cur>>
    ELSE IF Head(s) = sep THEN <<cur>> \o SplitOn(Tail(s), sep, <<>>)
    ELSE SplitOn(Tail(s), sep, Append(cur, Head(s)))

Split(s, sep) == SplitOn(s, sep, <<>>)

RECURSIVE LStrip(_)
LStrip(s) ==
    IF s # <<>> /\ Head(s) \in Whitespace THEN LStrip(Tail(s)) ELSE s

RECURSIVE RStrip(_)
RStrip(s) ==
    IF s # <<>> /\ s[Len(s)] \in Whitespace
    THEN RStrip(SubSeq(s, 1, Len(s) - 1))
    ELSE s

\* variant: nothing is removed
Strip_None(s) == s

\* variant: the whitespace inside the string is removed too
Strip_AllSpaces(s) ==
    LET Kept(c) == c \notin Whitespace IN SelectSeq(s, Kept)

\* parts[idx].strip()
Strip(s) == RStrip(LStrip(s))

\* splitter(idx, x), idx counted from 0
splitter(idx, x) ==
    IF idx >= Len(Split(x, ";")) THEN <<>>
    ELSE Strip(Split(x, ";")[idx + 1])

\* the columns parse_lineage adds for one lineage string
ParseLineageOf(x) == [l \in LevelIdx |-> splitter(l - 1, x)]

\* ';'.join(parts)
RECURSIVE Join(_, _)
Join(parts, sep) ==
    IF parts = <<>> THEN <<>>
    ELSE IF Len(parts) = 1 THEN parts[1]
    ELSE parts[1] \o <<sep>> \o Join(Tail(parts), sep)

\* a ranked lineage is written as a lineage string
FormatLineage ==
    /\ UNCHANGED <<uniqVars, reportVars, indexVars>>
    /\ UNCHANGED <<rewriteVars, mapVars>>
    /\ pc = "start"
    /\ ltp_tax' = {[id |-> r.id, lin |-> r.lin, lineage |-> Join(r.lin, ";")] :
                      r \in ltp_tax}
    /\ pc' = "formatted"
    /\ UNCHANGED <<err, gtdb_tax, polyVars, removed, treeVars>>

\* parse_lineage(df): df[level] = df['lineage'].apply(partial(splitter, idx))
ParseLineage ==
    /\ UNCHANGED <<uniqVars, reportVars, indexVars>>
    /\ UNCHANGED <<rewriteVars, mapVars>>
    /\ pc \in {"raw", "formatted"}
    /\ ltp_tax' = {[id |-> r.id, lineage |-> r.lineage,
                    lin |-> ParseLineageOf(r.lineage)] : r \in ltp_tax}
    /\ pc' = IF pc = "raw" THEN "parsed" ELSE "reparsed"
    /\ UNCHANGED <<err, gtdb_tax, polyVars, removed, treeVars>>

\* longest raw lineage string
MaxRawLen == 8

RawChars == {"a", " ", ";"}

\* the names of the ranked lineages that are formatted
LineageNames ==
    {<<>>, <<"a">>, <<"a", " ", "b">>, <<" ", "a">>, <<"a", ";">>}

ParseInit ==
    /\ UniqIdle /\ ReportIdle /\ IndexIdle
    /\ RewriteIdle /\ MapIdle
    /\ err = "none"
    /\ gtdb_tax = {}
    /\ \/ /\ pc = "raw"
          /\ \E n \in 0..MaxRawLen : \E x \in [1..n -> RawChars] :
                ltp_tax = {[id |-> RowId("y", 1), lineage |-> x]}
       \/ /\ pc = "start"
          /\ \E lin \in [LevelIdx -> LineageNames] :
                ltp_tax = {[id |-> RowId("y", 1), lin |-> lin]}
    /\ PolyIdle
    /\ removed = {}
    /\ TreeIdle

ParseNext ==
    \/ FormatLineage
    \/ ParseLineage

SpecParse == ParseInit /\ [][ParseNext]_vars

----------------------------------------------------------------------------
(* Claims about parse_lineage *)

\* where the separators of a string are
SepPositions(x) == {i \in 1..Len(x) : x[i] = ";"}

\* where the k-th separator is; the 0-th is before the string and the one
\* after the last is behind it
SepPos(x, k) ==
    IF k = 0 THEN 0
    ELSE IF k > Cardinality(SepPositions(x)) THEN Len(x) + 1
    ELSE CHOOSE i \in SepPositions(x) :
            Cardinality({j \in SepPositions(x) : j < i}) = k - 1

\* the k-th separator-delimited part
PartOf(x, k) == SubSeq(x, SepPos(x, k - 1) + 1, SepPos(x, k) - 1)

\* a string from its first to its last character that is not whitespace
Trimmed(p) ==
    LET ink == {i \in 1..Len(p) : p[i] \notin Whitespace}
    IN  IF ink = {} THEN <<>>
        ELSE SubSeq(p, CHOOSE i \in ink : \A j \in ink : i <= j,
                       CHOOSE i \in ink : \A j \in ink : i >= j)

\* C12: parsing a raw lineage string yields seven fields: field i is the
\* trimmed i-th separator-delimited part, a field beyond the last part is the
\* empty string, and the parts beyond the seventh are dropped
C12_SevenTrimmedFields ==
    pc = "parsed" =>
        \A r \in ltp_tax :
            /\ DOMAIN r.lin = 1..7
            /\ \A i \in 1..7 :
                  r.lin[i] = IF i <= Cardinality(SepPositions(r.lineage)) + 1
                             THEN Trimmed(PartOf(r.lineage, i))
                             ELSE <<>>

\* C12 witness: a parsed string of more than seven parts, one of which is
\* whitespace only
C12_Witness ==
    /\ pc = "parsed"
    /\ \E r \in ltp_tax :
          /\ Cardinality(SepPositions(r.lineage)) >= 7
          /\ \E i \in 1..7 : PartOf(r.lineage, i) # <<>> /\ r.lin[i] = <<>>

NoSeparator(lin) == \A l \in LevelIdx : SepPositions(lin[l]) = {}

NoOuterWhitespace(lin) == \A l \in LevelIdx : Trimmed(lin[l]) = lin[l]

\* C13 (as claimed): parsing the separator-joined form of a ranked lineage
\* whose names hold no separator gives back the same seven names
C13_RoundTrip ==
    [][(pc = "formatted" /\ pc' = "reparsed") =>
          \A r \in ltp_tax : \A q \in ltp_tax' :
              (r.id = q.id /\ NoSeparator(r.lin)) => q.lin = r.lin]_vars

\* C13 (amended): parsing the separator-joined form of a ranked lineage gives
\* back the same seven names when no name holds a separator and no name
\* starts or ends with whitespace
C13_RoundTripOfTrimmed ==
    [][(pc = "formatted" /\ pc' = "reparsed") =>
          \A r \in ltp_tax : \A q \in ltp_tax' :
              (r.id = q.id /\ NoSeparator(r.lin) /\ NoOuterWhitespace(r.lin))
                  => q.lin = r.lin]_vars

\* C13 witness: a lineage with an empty name between two names, one of them
\* with whitespace inside, came back from the round trip
C13_Witness ==
    /\ pc = "reparsed"
    /\ \E r \in ltp_tax :
          /\ r.lin = ParseLineageOf(Join(r.lin, ";"))
          /\ r.lineage = Join(r.lin, ";")
          /\ NoSeparator(r.lin) /\ NoOuterWhitespace(r.lin)
          /\ \E i \in 1..5 :
                r.lin[i] = <<"a", " ", "b">> /\ r.lin[i + 1] = <<>>
                   /\ r.lin[i + 2] = <<"a">>

----------------------------------------------------------------------------
(* adjust_ltp: the derivation of the rewrite rules and the bulk rename *)

Bacteria == <<"B", "a", "c", "t", "e", "r", "i", "a">>

Archaea == <<"A", "r", "c", "h", "a", "e", "a">>

\* s[i..] starts with sub
StartsAt(s, sub, i) ==
    /\ i + Len(sub) - 1 <= Len(s)
    /\ SubSeq(s, i, i + Len(sub) - 1) = sub

\* `sub in s` of two strings
Contains(sub, s) == sub = <<>> \/ \E i \in 1..Len(s) : StartsAt(s, sub, i)

\* str.replace of a non-empty old: its occurrences from the left, none
\* overlapping another, and nothing replaced twice
RECURSIVE ReplaceFrom(_, _, _, _)
ReplaceFrom(s, old, new, i) ==
    IF i > Len(s) THEN <<>>
    ELSE IF StartsAt(s, old, i) THEN new \o ReplaceFrom(s, old, new, i + Len(old))
    ELSE <<s[i]>> \o ReplaceFrom(s, old, new, i + 1)

Replace(s, old, new) == ReplaceFrom(s, old, new, 1)

\* s.count(c) of one character
Count(s, c) == Cardinality({i \in 1..Len(s) : s[i] = c})

\* the curated rules: three of the entries of LTP_RENAMES, in their order
LTP_RENAMES == <<
    [old |-> <<"B", "a", "c", "i", "l", "l", "o", "t", "a">>,
     new |-> <<"F", "i", "r", "m", "i", "c", "u", "t", "e", "s">>],
    [old |-> <<"T", "h", "e", "r", "m", "o", "p", "r", "o", "t", "e", "i">>,
     new |-> <<"T", "h", "e", "r", "m", "o", "p", "r", "o", "t", "e", "i", "a">>],
    [old |-> <<"C", "r", "e", "n", "a", "r", "c", "h", "a", "e", "o", "t", "a">>,
     new |-> <<"T", "h", "e", "r", "m", "o", "p", "r", "o", "t", "e", "o", "t", "a">>] >>

\* one of the ids of LTP_TO_DROP
LTP_TO_DROP == {<<"K", "F", "9", "8", "1", "4", "4", "1">>}

\* the pair (current, gtdb) of a lineage at the level lvl (from 0), anchored
\* by a separator above the species
CurrentAt(parts, lvl) ==
    Join(SubSeq(parts, 1, lvl + 1), ";") \o (IF lvl < 6 THEN <<";">> ELSE <<>>)

GtdbAt(n2g, parts, lvl) ==
    n2g[<<lvl, parts[lvl + 1]>>] \o (IF lvl < 6 THEN <<";">> ELSE <<>>)

\* every (current, gtdb) the loops over the records and their levels come to
Candidates(df, n2g) ==
    UNION {LET parts == Split(r.lineage, ";")
           IN  {<<CurrentAt(parts, lvl), GtdbAt(n2g, parts, lvl)>> :
                   lvl \in {l \in 0..(Len(parts) - 1) :
                              /\ <<l, parts[l + 1]>> \in DOMAIN n2g
                              /\ GtdbAt(n2g, parts, l) # CurrentAt(parts, l)}}
           : r \in df}

\* the sanity check of the derivation
CrossDomain(c) == Contains(Bacteria, c[1]) /\ Contains(Archaea, c[2])

\* the entries made of the set auto_rename
AutoEntries(cands) ==
    {[old |-> c[1], new |-> c[2], length |-> Count(c[1], ";")] : c \in cands}

\* sorted(..., reverse=True) of the list of a set: the longest first, the
\* entries of one length in any order (the order of the set is not defined)
RECURSIVE SortedByLength_Unsorted(_)
SortedByLength_Unsorted(S) ==
    IF S = {} THEN {<<>>}
    ELSE UNION {{<<x>> \o t : t \in SortedByLength_Unsorted(S \ {x})} : x \in S}

RECURSIVE SortedByLength(_)
SortedByLength(S) ==
    IF S = {} THEN {<<>>}
    ELSE UNION {{<<x>> \o t : t \in SortedByLength(S \ {x})} :
                   x \in {y \in S : \A z \in S : z.length <= y.length}}

\* auto_rename + LTP_RENAMES
Entries == auto_rename \o LTP_RENAMES

renamer(entry, lin) ==
    IF Contains(entry.old, lin) THEN Replace(lin, entry.old, entry.new)
    ELSE lin

\* the lineage after the entries from..Len(es) were applied in their order
RECURSIVE ApplyFrom(_, _, _)
ApplyFrom(es, from, lin) ==
    IF from > Len(es) THEN lin
    ELSE ApplyFrom(es, from + 1, renamer(es[from], lin))

\* a cross-domain candidate raises
AutoRenameRaise ==
    /\ UNCHANGED <<uniqVars, reportVars, indexVars>>
    /\ pc = "start"
    /\ \E c \in Candidates(ltp_tax, ncbi_to_gtdb) : CrossDomain(c)
    /\ pc' = "raised"
    /\ err' = "ValueError"
    /\ UNCHANGED <<tabVars, polyVars, removed, treeVars, rewriteVars, mapVars>>

\* the rules are derived, deduplicated by the set, and sorted
AutoRename ==
    /\ UNCHANGED <<uniqVars, reportVars, indexVars>>
    /\ pc = "start"
    /\ \A c \in Candidates(ltp_tax, ncbi_to_gtdb) : ~CrossDomain(c)
    /\ auto_rename' \in SortedByLength(AutoEntries(Candidates(ltp_tax, ncbi_to_gtdb)))
    /\ ei' = 1
    /\ pc' = "rename"
    /\ UNCHANGED <<err, tabVars, polyVars, removed, treeVars, ncbi_to_gtdb,
                   ltp_tax0, mapVars>>

\* one turn of `for entry in auto_rename + LTP_RENAMES`
RenameEntry ==
    /\ UNCHANGED <<uniqVars, reportVars, indexVars>>
    /\ pc = "rename"
    /\ ei <= Len(Entries)
    /\ ltp_tax' = {[r EXCEPT !.lineage = renamer(Entries[ei], @)] : r \in ltp_tax}
    /\ ei' = ei + 1
    /\ UNCHANGED <<pc, err, gtdb_tax, polyVars, removed, treeVars, ncbi_to_gtdb,
                   auto_rename, ltp_tax0, mapVars>>

\* the loop is over: the records of LTP_TO_DROP are dropped
RenameReturn ==
    /\ UNCHANGED <<uniqVars, reportVars, indexVars>>
    /\ pc = "rename"
    /\ ei > Len(Entries)
    /\ ltp_tax' = {r \in ltp_tax : r.id \notin LTP_TO_DROP}
    /\ pc' = "renamed"
    /\ UNCHANGED <<err, gtdb_tax, polyVars, removed, treeVars, rewriteVars, mapVars>>

----------------------------------------------------------------------------
(* adjust_ltp: the inputs of the model *)

MaxRenameRows == 2

\* lineages of the secondary table as the derivation finds them
RenameLineages == <<
    <<"B", "a", "c", "t", "e", "r", "i", "a", ";", "B", "a", "c", "i", "l", "l", "o", "t", "a", ";", "C">>,
    <<"A", "r", "c", "h", "a", "e", "a", ";", "C", "r", "e", "n", "a", "r", "c", "h", "a", "e", "o", "t", "a", ";", "T", "h", "e", "r", "m", "o", "p", "r", "o", "t", "e", "i">>,
    <<"B", "a", "c", "t", "e", "r", "i", "a", ";", "P", "a", ";", "C">>,
    <<"A", "r", "c", "h", "a", "e", "a", ";", "P", "a", ";", "C">>,
    <<"B", "a", "c", "t", "e", "r", "i", "a", ";", "P", "b", ";", "C">> >>

\* what a key of ncbi_to_gtdb may map to: nothing, or one of the paths
NcbiKeys == <<
    [key |-> <<0, Bacteria>>, to |-> {Bacteria}],
    [key |-> <<0, Archaea>>, to |-> {Archaea, Bacteria}],
    [key |-> <<1, <<"P", "a">>>>, to |-> {<<"B", "a", "c", "t", "e", "r", "i", "a", ";", "P", "b">>, <<"A", "r", "c", "h", "a", "e", "a", ";", "P", "b">>}],
    [key |-> <<1, <<"P", "b">>>>, to |-> {<<"B", "a", "c", "t", "e", "r", "i", "a", ";", "P", "a">>, <<"B", "a", "c", "t", "e", "r", "i", "a", ";", "P", "b">>}],
    [key |-> <<2, <<"C">>>>, to |-> {<<"B", "a", "c", "t", "e", "r", "i", "a", ";", "P", "b", ";", "D">>}] >>

\* the dictionary of the keys K with the choice ch of what each maps to
NcbiToGtdb(K, ch) ==
    [k \in {NcbiKeys[i].key : i \in K} |->
        ch[CHOOSE i \in K : NcbiKeys[i].key = k]]

RenameRow(i, v) == [id |-> RowId("x", i), lineage |-> RenameLineages[v]]

RenameInit ==
    /\ UniqIdle /\ ReportIdle /\ IndexIdle
    /\ MapIdle
    /\ pc = "start"
    /\ err = "none"
    /\ gtdb_tax = {}
    /\ \E n \in 1..MaxRenameRows :
          \E v \in [1..n -> DOMAIN RenameLineages] :
              ltp_tax = {RenameRow(i, v[i]) : i \in 1..n}
    /\ ltp_tax0 = ltp_tax
    /\ \E K \in SUBSET DOMAIN NcbiKeys :
          \E ch \in [K -> UNION {NcbiKeys[i].to : i \in K}] :
              /\ \A i \in K : ch[i] \in NcbiKeys[i].to
              /\ ncbi_to_gtdb = NcbiToGtdb(K, ch)
    /\ auto_rename = <<>>
    /\ ei = 0
    /\ PolyIdle
    /\ removed = {}
    /\ TreeIdle

RenameNext ==
    \/ AutoRenameRaise
    \/ AutoRename
    \/ RenameEntry
    \/ RenameReturn

SpecRename == RenameInit /\ [][RenameNext]_vars

----------------------------------------------------------------------------
(* adjust_ltp: the claims *)

Renaming == pc \in {"rename", "renamed"}

\* the domain a path starts with
DomainOf(path) == Split(path, ";")[1]

\* a candidate whose two paths start with the two different domains
MovesDomain(c) ==
    /\ DomainOf(c[1]) \in {Bacteria, Archaea}
    /\ DomainOf(c[2]) \in {Bacteria, Archaea}
    /\ DomainOf(c[1]) # DomainOf(c[2])

\* C14 (as claimed): once the whole list of rules (the derived ones, then the
\* curated ones) was applied to the table, applying the same list again
\* changes no lineage string.
C14_RewriteIdempotent ==
    pc = "renamed" =>
        \A r \in ltp_tax : ApplyFrom(Entries, 1, r.lineage) = r.lineage

\* the k-th rule of the list: the derived rules come first
RuleAt(k) ==
    IF k <= Len(auto_rename) THEN auto_rename[k]
    ELSE LTP_RENAMES[k - Len(auto_rename)]

\* the lineage after the rules 1..k were applied one after the other
RECURSIVE AfterRules(_, _)
AfterRules(k, lin) ==
    IF k = 0 THEN lin ELSE renamer(RuleAt(k), AfterRules(k - 1, lin))

\* C15: the derived rules hold no rule twice and are exactly the candidates
\* of the table, they are in non-increasing order of the number of
\* separators of `old`, and after k turns of the loop every lineage is what
\* the first k rules of (derived rules, then curated rules) make of it,
\* applied one after the other in that order.
C15_DerivedRulesSortedAndFirst ==
    Renaming =>
        /\ \A i, j \in DOMAIN auto_rename : i < j =>
              /\ auto_rename[i] # auto_rename[j]
              /\ Count(auto_rename[i].old, ";") >= Count(auto_rename[j].old, ";")
        /\ {<<auto_rename[i].old, auto_rename[i].new>> : i \in DOMAIN auto_rename}
              = Candidates(ltp_tax0, ncbi_to_gtdb)
        /\ ei - 1 <= Len(auto_rename) + Len(LTP_RENAMES)
        /\ \A r0 \in ltp_tax0 :
              \E r \in ltp_tax :
                  /\ r.id = r0.id
                  /\ r.lineage = AfterRules(ei - 1, r0.lineage)

\* the loop is over, two derived rules differ in length, a derived rule and
\* a curated rule both changed a lineage
C15_Witness ==
    /\ pc = "renamed"
    /\ \E i, j \in DOMAIN auto_rename :
          Count(auto_rename[i].old, ";") > Count(auto_rename[j].old, ";")
    /\ \E r0 \in ltp_tax0 :
          /\ AfterRules(Len(auto_rename), r0.lineage) # r0.lineage
    /\ \E r0 \in ltp_tax0 :
          /\ AfterRules(Len(Entries), r0.lineage)
                # AfterRules(Len(auto_rename), r0.lineage)

\* C16 (as claimed): a candidate that moves a lineage from one domain to the
\* other, in either direction, aborts the run: where the derivation went on
\* to the renaming, no candidate and no rule moves a domain.
C16_NoCrossDomainRule ==
    Renaming =>
        /\ \A c \in Candidates(ltp_tax0, ncbi_to_gtdb) : ~MovesDomain(c)
        /\ \A i \in DOMAIN auto_rename :
              ~MovesDomain(<<auto_rename[i].old, auto_rename[i].new>>)

----------------------------------------------------------------------------
(* tree_map: cut, chop_to_species, species_cover, cut_uncovered_species and
   to_species_as_tips.  A tree has the fields root, nodes, children, parent,
   name, length and species_cover; species_cover is a function of the nodes
   the attribute was set on. *)

\* f"{rank}__"
RankSpecifier(r) == <<r, "_", "_">>

\* name.split(sep) of a separator of several characters
RECURSIVE SplitSeqFrom(_, _, _, _)
SplitSeqFrom(s, sep, i, cur) ==
    IF i > Len(s) THEN <<cur>>
    ELSE IF StartsAt(s, sep, i)
         THEN <<cur>> \o SplitSeqFrom(s, sep, i + Len(sep), <<>>)
    ELSE SplitSeqFrom(s, sep, i + 1, Append(cur, s[i]))

SplitSeq(s, sep) == SplitSeqFrom(s, sep, 1, <<>>)

\* sep.join(parts) of a separator of several characters
RECURSIVE JoinSeq(_, _)
JoinSeq(parts, sep) ==
    IF parts = <<>> THEN <<>>
    ELSE IF Len(parts) = 1 THEN parts[1]
    ELSE parts[1] \o sep \o JoinSeq(Tail(parts), sep)

NameSep == <<";", " ">>

\* the name chop_to_species leaves on the node cut returned: with a ';' in
\* it, the parts up to the first that starts with the specifier, and all of
\* them when the loop meets none (idx is then the last index)
ChopName_Keep(name, spec) == name

ChopName(name, spec) ==
    IF Count(name, ";") > 0
    THEN LET parts == SplitSeq(name, NameSep)
             hits == {i \in DOMAIN parts : StartsAt(parts[i], spec, 1)}
             idx == IF hits = {} THEN Len(parts)
                    ELSE CHOOSE i \in hits : \A j \in hits : i <= j
         IN  JoinSeq(SubSeq(parts, 1, idx), NameSep)
    ELSE name

\* node.name is not None and rank_specifier in node.name
RankNamed(t, n, spec) == t.name[n] # None /\ Contains(spec, t.name[n])

\* len(children) == 1 and node.children[0].is_tip()
SingleTipChild(t, n) ==
    /\ Len(t.children[n]) = 1
    /\ IsTip(t, t.children[n][1])

\* the node cut(node) returns
CutNode(t, n) == IF SingleTipChild(t, n) THEN t.children[n][1] ELSE n

\* the tree after cut(node): the only child adopts the name, or every child
\* is removed from the node
Cut(t, n) ==
    IF SingleTipChild(t, n)
    THEN [t EXCEPT !.name = [@ EXCEPT ![n] = None,
                                      ![t.children[n][1]] = t.name[n]]]
    ELSE [t EXCEPT !.children[n] = <<>>,
                   !.parent = [x \in DOMAIN @ |->
                                  IF x \in SeqToSet(t.children[n]) THEN NoNode
                                  ELSE @[x]]]

\* traversal_order = list(tree.postorder())
ChopStart ==
    /\ UNCHANGED <<uniqVars, reportVars, indexVars>>
    /\ pc = "chop"
    /\ traversal_order' = Postorder(tree, tree.root)
    /\ ti' = 1
    /\ pc' = "chop_loop"
    /\ UNCHANGED <<err, tabVars, polyVars, removed, treeVars, rewriteVars,
                   tree, tree0, rank, cut_removed>>

\* a node with the specifier in its name is cut and the name is chopped
ChopNode ==
    /\ UNCHANGED <<uniqVars, reportVars, indexVars>>
    /\ pc = "chop_loop"
    /\ ti <= Len(traversal_order)
    /\ RankNamed(tree, traversal_order[ti], RankSpecifier(rank))
    /\ LET n == traversal_order[ti]
           node == CutNode(tree, n)
           t1 == Cut(tree, n)
       IN  tree' = [t1 EXCEPT !.name[node] = ChopName(@, RankSpecifier(rank))]
    /\ ti' = ti + 1
    /\ UNCHANGED <<pc, err, tabVars, polyVars, removed, treeVars, rewriteVars,
                   tree0, rank, traversal_order, cut_removed>>

\* any other node is left as it is
ChopSkip ==
    /\ UNCHANGED <<uniqVars, reportVars, indexVars>>
    /\ pc = "chop_loop"
    /\ ti <= Len(traversal_order)
    /\ ~RankNamed(tree, traversal_order[ti], RankSpecifier(rank))
    /\ ti' = ti + 1
    /\ UNCHANGED <<pc, err, tabVars, polyVars, removed, treeVars, rewriteVars,
                   tree, tree0, rank, traversal_order, cut_removed>>

\* chop_to_species returns to to_species_as_tips
ChopReturn ==
    /\ UNCHANGED <<uniqVars, reportVars, indexVars>>
    /\ pc = "chop_loop"
    /\ ti > Len(traversal_order)
    /\ pc' = "chopped"
    /\ UNCHANGED <<err, tabVars, polyVars, removed, treeVars, rewriteVars,
                   mapVars>>

\* node.species_cover as the postorder loop sets it
RECURSIVE Cover(_, _, _)
Cover(t, n, spec) ==
    IF IsTip(t, n) THEN Contains(spec, t.name[n])
    ELSE \E i \in 1..Len(t.children[n]) : Cover(t, t.children[n][i], spec)

\* species_cover meets a tip without a name: `rank_specifier in None`
SpeciesCoverRaise ==
    /\ UNCHANGED <<uniqVars, reportVars, indexVars>>
    /\ pc = "chopped"
    /\ \E n \in InTree(tree) : IsTip(tree, n) /\ tree.name[n] = None
    /\ pc' = "raised"
    /\ err' = "TypeError"
    /\ UNCHANGED <<tabVars, polyVars, removed, treeVars, rewriteVars, mapVars>>

SpeciesCover ==
    /\ UNCHANGED <<uniqVars, reportVars, indexVars>>
    /\ pc = "chopped"
    /\ \A n \in InTree(tree) : IsTip(tree, n) => tree.name[n] # None
    /\ tree' = [tree EXCEPT !.species_cover =
                   [n \in InTree(tree) |-> Cover(tree, n, RankSpecifier(rank))]]
    /\ pc' = "covered"
    /\ UNCHANGED <<err, tabVars, polyVars, removed, treeVars, rewriteVars,
                   tree0, rank, traversal_order, ti, cut_removed>>

\* `not node.species_cover`
Uncovered_Never(t, n) == FALSE

Uncovered(t, n) == ~t.species_cover[n]

\* traversal_order = list(tree.preorder(include_self=False))
CutStart ==
    /\ UNCHANGED <<uniqVars, reportVars, indexVars>>
    /\ pc = "covered"
    /\ traversal_order' = PreorderOfList(tree, tree.children[tree.root])
    /\ ti' = 1
    /\ cut_removed' = {}
    /\ pc' = "cut_loop"
    /\ UNCHANGED <<err, tabVars, polyVars, removed, treeVars, rewriteVars,
                   tree, tree0, rank>>

\* if node in removed: continue
CutSkip ==
    /\ UNCHANGED <<uniqVars, reportVars, indexVars>>
    /\ pc = "cut_loop"
    /\ ti <= Len(traversal_order)
    /\ traversal_order[ti] \in cut_removed
    /\ ti' = ti + 1
    /\ UNCHANGED <<pc, err, tabVars, polyVars, removed, treeVars, rewriteVars,
                   tree, tree0, rank, traversal_order, cut_removed>>

\* a covered node stays
CutKeep ==
    /\ UNCHANGED <<uniqVars, reportVars, indexVars>>
    /\ pc = "cut_loop"
    /\ ti <= Len(traversal_order)
    /\ traversal_order[ti] \notin cut_removed
    /\ ~Uncovered(tree, traversal_order[ti])
    /\ ti' = ti + 1
    /\ UNCHANGED <<pc, err, tabVars, polyVars, removed, treeVars, rewriteVars,
                   tree, tree0, rank, traversal_order, cut_removed>>

\* a node that is not covered is removed from its parent
CutRemove ==
    /\ UNCHANGED <<uniqVars, reportVars, indexVars>>
    /\ pc = "cut_loop"
    /\ ti <= Len(traversal_order)
    /\ traversal_order[ti] \notin cut_removed
    /\ Uncovered(tree, traversal_order[ti])
    /\ tree' = Remove(tree, traversal_order[ti])
    /\ cut_removed' = cut_removed \cup ProperDesc(tree, traversal_order[ti])
    /\ ti' = ti + 1
    /\ UNCHANGED <<pc, err, tabVars, polyVars, removed, treeVars, rewriteVars,
                   tree0, rank, traversal_order>>

\* cut_uncovered_species and to_species_as_tips return
CutReturn ==
    /\ UNCHANGED <<uniqVars, reportVars, indexVars>>
    /\ pc = "cut_loop"
    /\ ti > Len(traversal_order)
    /\ pc' = "done"
    /\ UNCHANGED <<err, tabVars, polyVars, removed, treeVars, rewriteVars,
                   mapVars>>

----------------------------------------------------------------------------
(* tree_map: the trees of the model *)

MaxMapNodes == 4

MNode(i) == <<"m", i>>

\* names a node of the tree may have
MapNames == {
    None,
    <<"a">>,
    <<"g", "_", "_", "b", ";", " ", "s", "_", "_", "c">>,
    <<"g", "_", "_", "b", ";", " ", "x", "s", "_", "_", "c">> }

\* the tree of n nodes where pv[i] is the parent of node i and nm[i] its name;
\* the branch length of node i is i
MapTree(n, pv, nm) ==
    [root |-> MNode(1),
     nodes |-> {MNode(i) : i \in 1..n},
     children |-> [x \in {MNode(i) : i \in 1..n} |->
                      LET kids == {i \in 2..n : pv[i] = x[2]}
                          Nth(k) == CHOOSE i \in kids :
                                       Cardinality({j \in kids : j < i}) = k - 1
                      IN  [k \in 1..Cardinality(kids) |-> MNode(Nth(k))]],
     parent |-> [x \in {MNode(i) : i \in 1..n} |->
                    IF x[2] = 1 THEN NoNode ELSE MNode(pv[x[2]])],
     name |-> [x \in {MNode(i) : i \in 1..n} |-> nm[x[2]]],
     length |-> [x \in {MNode(i) : i \in 1..n} |-> x[2]],
     species_cover |-> <<>>]

MapInit ==
    /\ UniqIdle /\ ReportIdle /\ IndexIdle
    /\ RewriteIdle
    /\ pc = "chop"
    /\ err = "none"
    /\ TablesIdle
    /\ PolyIdle
    /\ removed = {}
    /\ TreeIdle
    /\ rank \in {"s", "g"}
    /\ \E n \in 1..MaxMapNodes :
          \E pv \in [2..n -> 1..n] :
              /\ \A i \in 2..n : pv[i] < i
              /\ \E nm \in [1..n -> MapNames] :
                    tree = MapTree(n, pv, nm)
    /\ tree0 = tree
    /\ traversal_order = <<>>
    /\ ti = 0
    /\ cut_removed = {}

MapNext ==
    \/ ChopStart
    \/ ChopNode
    \/ ChopSkip
    \/ ChopReturn
    \/ SpeciesCoverRaise
    \/ SpeciesCover
    \/ CutStart
    \/ CutSkip
    \/ CutKeep
    \/ CutRemove
    \/ CutReturn

SpecTreeMap == MapInit /\ [][MapNext]_vars

----------------------------------------------------------------------------
(* tree_map: the claims *)

Spec0 == RankSpecifier(rank)

\* the node had a name with the specifier in it as the function was called
Named0(n) == RankNamed(tree0, n, Spec0)

\* the nodes of the subtree of n (n included) as the function was called
Subtree0(n) == ProperDesc(tree0, n) \cup {n}

Chopped == pc \in {"chopped"}

\* the last of the "; " parts of a name starts with the specifier
EndsWithRankPart(name) ==
    LET parts == SplitSeq(name, NameSep)
    IN  StartsAt(parts[Len(parts)], Spec0, 1)

\* some "; " part of a name starts with the specifier
HasRankPart(name) ==
    \E i \in DOMAIN SplitSeq(name, NameSep) :
        StartsAt(SplitSeq(name, NameSep)[i], Spec0, 1)

\* name is what the parts of full up to some part make
IsPrefixOfParts(name, full) ==
    \E k \in 1..Len(SplitSeq(full, NameSep)) :
        name = JoinSeq(SubSeq(SplitSeq(full, NameSep), 1, k), NameSep)

\* a node with the specifier in its name is a tip
NamedAreTips ==
    \A n \in InTree(tree) : RankNamed(tree, n, Spec0) => IsTip(tree, n)

\* the only child, a tip, of a named node has the name and its own length
ChildTakesOver ==
    \A n \in tree0.nodes :
        (Named0(n) /\ SingleTipChild(tree0, n)) =>
            LET c == tree0.children[n][1]
            IN  /\ tree.name[n] = None
                /\ tree.name[c] # None
                /\ IsPrefixOfParts(tree.name[c], tree0.name[n])
                /\ tree.length[c] = tree0.length[c]
                /\ tree.parent[c] = n

\* C19 (as claimed): after chop_to_species every node of the tree with the
\* specifier in its name is a tip, every such name with several parts ends
\* with the part that starts with the specifier, and the only child, a tip,
\* of a named node took over the name and kept its branch length.
C19_ChoppedToTips ==
    Chopped =>
        /\ NamedAreTips
        /\ \A n \in InTree(tree) :
              (RankNamed(tree, n, Spec0) /\ Count(tree.name[n], ";") > 0)
                  => EndsWithRankPart(tree.name[n])
        /\ ChildTakesOver

\* C19 (amended): as C19, but a name of several parts ends with the part
\* that starts with the specifier only where it had such a part: it is then
\* cut after the first of them; a name with the specifier inside a part
\* and at the start of none is left whole.  The name is the one the node, or
\* the parent it took it over from, had.
C19_ChoppedToTipsWhereRankPart ==
    Chopped =>
        /\ NamedAreTips
        /\ \A n \in InTree(tree) :
              (RankNamed(tree, n, Spec0) /\ Count(tree.name[n], ";") > 0) =>
                  \E from \in {n, tree0.parent[n]} \cap tree0.nodes :
                      /\ Named0(from)
                      /\ IsPrefixOfParts(tree.name[n], tree0.name[from])
                      /\ IF HasRankPart(tree0.name[from])
                         THEN /\ EndsWithRankPart(tree.name[n])
                              /\ \A i \in 1..(Len(SplitSeq(tree.name[n], NameSep)) - 1) :
                                    ~StartsAt(SplitSeq(tree.name[n], NameSep)[i], Spec0, 1)
                         ELSE tree.name[n] = tree0.name[from]
        /\ ChildTakesOver

\* chop_to_species has returned: a name was cut short, a child took over a
\* name, and a named node lost several children
C19_Witness ==
    /\ Chopped
    /\ \E n \in InTree(tree) :
          /\ RankNamed(tree, n, Spec0)
          /\ Named0(n)
          /\ tree.name[n] # tree0.name[n]
    /\ \E n \in tree0.nodes : Named0(n) /\ SingleTipChild(tree0, n)
    /\ \E n \in tree0.nodes :
          Named0(n) /\ Len(tree0.children[n]) >= 2 /\ IsTip(tree, n)

\* the tips of the tree: the nodes of it without children
MapTips == {n \in InTree(tree) : IsTip(tree, n)}

AllCovered ==
    \A n \in InTree(tree) \ {tree.root} : tree.species_cover[n]

TipsAreNamed ==
    \A n \in MapTips : tree.name[n] # None /\ Contains(Spec0, tree.name[n])

\* no node of the subtree of n had the specifier in its name
Unnamed0(n) == \A d \in Subtree0(n) : ~Named0(d)

\* C20 (as claimed): after to_species_as_tips on a tree with a node named
\* with the specifier, every node left but the root has species_cover true,
\* every tip has the specifier in its name, and every node whose subtree
\* held no named node is out of the tree.
C20_SpeciesAsTips ==
    (pc = "done" /\ \E n \in tree0.nodes : Named0(n)) =>
        /\ AllCovered
        /\ TipsAreNamed
        /\ \A n \in tree0.nodes : Unnamed0(n) => n \notin InTree(tree)

\* C20 (amended): as C20, but a node whose subtree held no named node may
\* stay when it was the only child, a tip, of a named node: it took over its
\* parent's name and is now the named tip.
C20_SpeciesAsTipsButAdopted ==
    (pc = "done" /\ \E n \in tree0.nodes : Named0(n)) =>
        /\ AllCovered
        /\ TipsAreNamed
        /\ \A n \in tree0.nodes :
              (Unnamed0(n) /\ n \in InTree(tree)) =>
                  /\ IsTip(tree0, n)
                  /\ Named0(tree0.parent[n])
                  /\ SingleTipChild(tree0, tree0.parent[n])
                  /\ RankNamed(tree, n, Spec0)

\* to_species_as_tips has returned: an uncovered subtree of several nodes was
\* removed and a named tip stays below the root
C20_Witness ==
    /\ pc = "done"
    /\ \E n \in tree0.nodes : Named0(n)
    /\ \E n \in tree0.nodes :
          /\ Unnamed0(n)
          /\ ~IsTip(tree0, n)
          /\ n \notin InTree(tree)
    /\ \E n \in InTree(tree) \ {tree.root} : RankNamed(tree, n, Spec0)

----------------------------------------------------------------------------
(* tree_map: uniqify *)

\* list(t.tips()): the tips below the root, in postorder
TipSeq(t) ==
    LET IsATip(n) == IsTip(t, n) /\ n # t.root
    IN  SelectSeq(Postorder(t, t.root), IsATip)

\* str(idx) of a natural number
DigitChars == <<"0", "1", "2", "3", "4", "5", "6", "7", "8", "9">>

RECURSIVE IntStr(_)
IntStr(i) ==
    IF i < 10 THEN <<DigitChars[i + 1]>>
    ELSE IntStr(i \div 10) \o <<DigitChars[(i % 10) + 1]>>

\* name_node[name].append(n) on the items of the dictionary
AddPart(items, part, n) ==
    IF \E i \in DOMAIN items : items[i].name = part
    THEN [i \in DOMAIN items |->
             IF items[i].name = part
             THEN [items[i] EXCEPT !.nodes = Append(@, n)]
             ELSE items[i]]
    ELSE Append(items, [name |-> part, nodes |-> <<n>>])

RECURSIVE AddParts(_, _, _)
AddParts(items, parts, n) ==
    IF parts = <<>> THEN items
    ELSE AddParts(AddPart(items, Head(parts), n), Tail(parts), n)

\* the first loop of uniqify over the tips from the k-th on
RECURSIVE CollectFrom(_, _, _, _)
CollectFrom(t, tips, k, items) ==
    IF k > Len(tips) THEN items
    ELSE CollectFrom(t, tips, k + 1,
             IF t.name[tips[k]] = None THEN items
             ELSE AddParts(items, SplitSeq(t.name[tips[k]], NameSep), tips[k]))

\* for idx, n in enumerate(nodes): n.name = n.name.replace(name, f"{name}-{idx}")
RECURSIVE RenameNodes(_, _, _, _)
RenameNodes(t, name, nodes, idx) ==
    IF idx >= Len(nodes) THEN t
    ELSE RenameNodes(
             [t EXCEPT !.name[nodes[idx + 1]] =
                 Replace(@, name, name \o <<"-">> \o IntStr(idx))],
             name, nodes, idx + 1)

UniqCollect ==
    /\ pc = "uniq"
    /\ name_node' = CollectFrom(tree, TipSeq(tree), 1, <<>>)
    /\ ti' = 1
    /\ pc' = "uniq_loop"
    /\ UNCHANGED <<err, tabVars, polyVars, removed, treeVars, rewriteVars,
                   tree, tree0, rank, traversal_order, cut_removed,
                   reportVars, indexVars>>

\* a name of several nodes: the nodes are renamed
UniqRename ==
    /\ pc = "uniq_loop"
    /\ ti <= Len(name_node)
    /\ Len(name_node[ti].nodes) > 1
    /\ tree' = RenameNodes(tree, name_node[ti].name, name_node[ti].nodes, 0)
    /\ ti' = ti + 1
    /\ UNCHANGED <<pc, err, tabVars, polyVars, removed, treeVars, rewriteVars,
                   tree0, rank, traversal_order, cut_removed,
                   uniqVars, reportVars, indexVars>>

\* a name of one node
UniqSkip ==
    /\ pc = "uniq_loop"
    /\ ti <= Len(name_node)
    /\ Len(name_node[ti].nodes) <= 1
    /\ ti' = ti + 1
    /\ UNCHANGED <<pc, err, tabVars, polyVars, removed, treeVars, rewriteVars,
                   tree, tree0, rank, traversal_order, cut_removed,
                   uniqVars, reportVars, indexVars>>

UniqReturn ==
    /\ pc = "uniq_loop"
    /\ ti > Len(name_node)
    /\ pc' = "uniq_done"
    /\ UNCHANGED <<err, tabVars, polyVars, removed, treeVars, rewriteVars,
                   mapVars, uniqVars, reportVars, indexVars>>

\* names a node of the tree given to uniqify may have
UniqNames == {
    None,
    <<"a">>,
    <<"a", ";", " ", "a", "b">>,
    <<"c", "_", "_", "X", ";", " ", "o", "_", "_", "X">> }

UniqInit ==
    /\ RewriteIdle /\ ReportIdle /\ IndexIdle
    /\ pc = "uniq"
    /\ err = "none"
    /\ TablesIdle
    /\ PolyIdle
    /\ removed = {}
    /\ TreeIdle
    /\ rank = ""
    /\ \E n \in 1..MaxMapNodes :
          \E pv \in [2..n -> 1..n] :
              /\ \A i \in 2..n : pv[i] < i
              /\ \E nm \in [1..n -> UniqNames] :
                    tree = MapTree(n, pv, nm)
    /\ tree0 = tree
    /\ traversal_order = <<>>
    /\ ti = 0
    /\ cut_removed = {}
    /\ name_node = <<>>

UniqNext ==
    \/ UniqCollect
    \/ UniqRename
    \/ UniqSkip
    \/ UniqReturn

SpecUniqify == UniqInit /\ [][UniqNext]_vars

----------------------------------------------------------------------------
(* uniqify: the claim *)

\* the parts of the name the tip had as uniqify was called
Parts0(n) == SplitSeq(tree0.name[n], NameSep)

\* the positions in the tip order of the tips that carry the part
Carriers(part) ==
    {k \in DOMAIN TipSeq(tree0) :
        /\ tree0.name[TipSeq(tree0)[k]] # None
        /\ part \in SeqToSet(Parts0(TipSeq(tree0)[k]))}

\* the part as the claim has it in the k-th tip
Uniqified(part, k) ==
    IF Cardinality(Carriers(part)) > 1
    THEN part \o <<"-">> \o IntStr(Cardinality({j \in Carriers(part) : j < k}))
    ELSE part

\* C21 (as claimed): after uniqify, a part of a tip's name that occurs in
\* several tips is '<part>-<i>' in the i-th tip that carries it (in tip
\* order, from 0), and a part that occurs in one tip only is unchanged.
C21_PartsNumberedPerTip ==
    pc = "uniq_done" =>
        \A k \in DOMAIN TipSeq(tree0) :
            LET n == TipSeq(tree0)[k]
            IN  tree0.name[n] # None =>
                    tree.name[n] =
                        JoinSeq([i \in DOMAIN Parts0(n) |->
                                    Uniqified(Parts0(n)[i], k)], NameSep)

----------------------------------------------------------------------------
(* species_report: parse_full_length *)

\* WOL = ^(G[09][0-9]{8})_[0-9]+$ : the match and its group
WOL_Never(id) == NoMatch

WOL(id) ==
    IF /\ Len(id) >= 12
       /\ id[1] = "G"
       /\ id[2] \in {"0", "9"}
       /\ \A i \in 3..10 : id[i] \in Digit
       /\ id[11] = "_"
       /\ \A i \in 12..Len(id) : id[i] \in Digit
    THEN [matched |-> TRUE, wol_id |-> SubSeq(id, 1, 10)]
    ELSE NoMatch

\* the record read in this turn of the loop
Rec == in_[ri]

\* a record of a genome met before: continue
ReadWolSeen ==
    /\ pc = "read"
    /\ ri <= Len(in_)
    /\ WOL(Rec.id).matched
    /\ WOL(Rec.id).wol_id \in wol_seen
    /\ ri' = ri + 1
    /\ UNCHANGED <<pc, err, tabVars, polyVars, removed, treeVars, rewriteVars,
                   mapVars, uniqVars, in_, limit, d_, wol_seen, indexVars>>

\* the first record of a genome: kept under the genome id if it is asked for
ReadWolFirst ==
    /\ pc = "read"
    /\ ri <= Len(in_)
    /\ WOL(Rec.id).matched
    /\ WOL(Rec.id).wol_id \notin wol_seen
    /\ wol_seen' = wol_seen \cup {WOL(Rec.id).wol_id}
    /\ d_' = IF WOL(Rec.id).wol_id \in limit
             THEN (WOL(Rec.id).wol_id :> Rec) @@ d_
             ELSE d_
    /\ ri' = ri + 1
    /\ UNCHANGED <<pc, err, tabVars, polyVars, removed, treeVars, rewriteVars,
                   mapVars, uniqVars, in_, limit, indexVars>>

\* any other record: kept under its id if it is asked for
ReadOther ==
    /\ pc = "read"
    /\ ri <= Len(in_)
    /\ ~WOL(Rec.id).matched
    /\ d_' = IF Rec.id \in limit THEN (Rec.id :> Rec) @@ d_ ELSE d_
    /\ ri' = ri + 1
    /\ UNCHANGED <<pc, err, tabVars, polyVars, removed, treeVars, rewriteVars,
                   mapVars, uniqVars, in_, limit, wol_seen, indexVars>>

ReadReturn ==
    /\ pc = "read"
    /\ ri > Len(in_)
    /\ pc' = "read_done"
    /\ UNCHANGED <<err, tabVars, polyVars, removed, treeVars, rewriteVars,
                   mapVars, uniqVars, reportVars, indexVars>>

MaxRecords == 3

G012345678 == <<"G", "0", "1", "2", "3", "4", "5", "6", "7", "8">>

G011111111 == <<"G", "0", "1", "1", "1", "1", "1", "1", "1", "1">>

\* the ids of the records of the file
RecordIds == {
    <<"a">>,
    G012345678 \o <<"_", "1">>,
    G012345678 \o <<"_", "2">>,
    G011111111 \o <<"_", "1">>,
    G012345678 }

\* the ids that may be asked for
LimitIds == {<<"a">>, G012345678, G011111111}

ReadInit ==
    /\ RewriteIdle /\ MapIdle /\ UniqIdle /\ IndexIdle
    /\ pc = "read"
    /\ err = "none"
    /\ TablesIdle
    /\ PolyIdle
    /\ removed = {}
    /\ TreeIdle
    /\ \E n \in 0..MaxRecords :
          \E ids \in [1..n -> RecordIds] :
              in_ = [i \in 1..n |-> [id |-> ids[i], seq |-> i]]
    /\ limit \in SUBSET LimitIds
    /\ d_ = <<>>
    /\ wol_seen = {}
    /\ ri = 1

ReadNext ==
    \/ ReadWolSeen
    \/ ReadWolFirst
    \/ ReadOther
    \/ ReadReturn

SpecRead == ReadInit /\ [][ReadNext]_vars

----------------------------------------------------------------------------
(* parse_full_length: the claims *)

\* the id has the form of a genome id with a suffix
Suffixed(id) ==
    /\ Len(id) >= 12
    /\ SubSeq(id, 1, 10) \in {G012345678, G011111111}
    /\ id[11] = "_"

\* the id a record is asked for by: the genome id of a suffixed id
Reduced(id) == IF Suffixed(id) THEN SubSeq(id, 1, 10) ELSE id

\* the positions of the suffixed records of the genome g
RecordsOf(g) == {i \in DOMAIN in_ : Suffixed(in_[i].id) /\ Reduced(in_[i].id) = g}

FirstOf(g) == CHOOSE i \in RecordsOf(g) : \A j \in RecordsOf(g) : i <= j

\* the positions of the records with the bare id k
BareOf_(k) == {i \in DOMAIN in_ : in_[i].id = k}

\* nothing is in the result but records asked for, under their reduced id
OnlyAskedFor ==
    \A k \in DOMAIN d_ :
        /\ k \in limit
        /\ ~Suffixed(k)
        /\ Reduced(d_[k].id) = k
        /\ \E i \in DOMAIN in_ : in_[i] = d_[k]

\* C22 (as claimed): the result holds, for every genome with suffixed
\* records that is asked for, the first of these records in file order
\* under the genome id, and no later record of the genome; and nothing is in
\* the result but records whose reduced id is asked for.
C22_FirstRecordOfGenome ==
    pc = "read_done" =>
        /\ \A g \in limit :
              RecordsOf(g) # {} => (g \in DOMAIN d_ /\ d_[g] = in_[FirstOf(g)])
        /\ OnlyAskedFor

\* C22 (amended): of the suffixed records of a genome only the first counts;
\* it is stored under the genome id if that is asked for, and a record with
\* the bare genome id as its id is stored under the same key: the later of
\* the two in the file is the one the result holds.  No later suffixed
\* record is ever in the result.
C22_FirstSuffixedOrBareRecord ==
    pc = "read_done" =>
        /\ \A g \in limit :
              RecordsOf(g) # {} =>
                  /\ g \in DOMAIN d_
                  /\ LET cands == {FirstOf(g)} \cup BareOf_(g)
                     IN  d_[g] = in_[CHOOSE i \in cands : \A j \in cands : j <= i]
        /\ \A k \in DOMAIN d_ :
              Suffixed(d_[k].id) => d_[k] = in_[FirstOf(k)]
        /\ OnlyAskedFor

\* the file was read: a genome asked for had a first and a later record, and
\* a record that is not asked for was met
C22_Witness ==
    /\ pc = "read_done"
    /\ \E g \in limit :
          /\ Cardinality(RecordsOf(g)) >= 2
          /\ d_[g] = in_[FirstOf(g)]
    /\ \E i \in DOMAIN in_ : Reduced(in_[i].id) \notin limit

----------------------------------------------------------------------------
(* graft_from_other: what is left, what is attached, and in which order *)

\* the nodes above n (the root left out) in the tree the call was made on
Anc0(n) == {a \in other0.nodes \ {other0.root} : n \in ProperDesc(other0, a)}

\* the internal nodes whose name is no key of the lookup
Unmatched0 == Internal0 \ Matched0

\* the records of the tree the call was made on
Records0 == {t \in other0.nodes : t # other0.root /\ IsTip(other0, t)}

Grafted == pc = "grafted"

\* C23: the visit of an internal node whose name is no key of the lookup
\* changes neither tree; when grafting ends such a node with no matched
\* node above it is still in the secondary tree, and its records that are not
\* below a matched node are still tips below it; it is out of the secondary
\* tree only if a node above it matched.
C23_UnmatchedStays ==
    /\ [](Grafted =>
            \A n \in Unmatched0 :
                /\ (Anc0(n) \cap Matched0 = {}) =>
                      /\ n \in InTree(other)
                      /\ \A t \in OwnRecordTips0(n) :
                            t \in ProperDesc(other, n) /\ IsTip(other, t)
                /\ n \notin InTree(other) => Anc0(n) \cap Matched0 # {})
    /\ [][(pc = "graft" /\ gi <= Len(order) /\ Cur \in Unmatched0)
             => (other' = other /\ gtdb' = gtdb)]_vars

\* grafting has ended: a node that did not match, with nothing matched above
\* it, has a record of its own and a matched node below it
C23_Witness ==
    /\ Grafted
    /\ \E n \in Unmatched0 :
          /\ Anc0(n) \cap Matched0 = {}
          /\ OwnRecordTips0(n) # {}
          /\ Matched0 \cap ProperDesc(other0, n) # {}

\* the attached nodes: the nodes of the primary tree it did not have before
Attached == InTree(gtdb) \ gtdb0.nodes

\* C24: after prep_trees and graft_from_other every leaf attached to the
\* primary tree is a record of the secondary tree, and every attached node
\* with children has a record below it: no node without records is attached.
C24_AttachedAreKeepable ==
    Grafted =>
        \A x \in Attached :
            IF IsTip(gtdb, x) THEN x \in Records0
            ELSE ProperDesc(gtdb, x) \cap Records0 # {}

\* grafting has ended: a record is attached, and a node that lost all its
\* children to an earlier graft was below a matched node and is not attached
C24_Witness ==
    /\ Grafted
    /\ Attached \cap Records0 # {}
    /\ \E n \in Internal0 :
          /\ Anc0(n) \cap Matched0 # {}
          /\ RecordTips0(n) # {}
          /\ OwnRecordTips0(n) = {}
          /\ n \in Unmatched0
          /\ n \notin InTree(gtdb)

\* C25: the loop goes through the postorder of the tree as it was when
\* graft_from_other was called, a node before the nodes above it; the
\* records of a matched node are below the node of its own name, and the
\* graft of a node never brings a node the primary tree already has.
C25_PostorderChildrenFirst ==
    /\ pc \in {"graft", "grafted"} =>
          /\ order = PostorderNoSelf(other0)
          /\ \A i, j \in DOMAIN order :
                order[i] \in ProperDesc(other0, order[j]) => i < j
    /\ (pc = "graft" /\ gi <= Len(order) /\ ~IsTip(other, Cur)
            /\ other.name[Cur] \in DOMAIN lookup) =>
          KeptBelow(other, Cur) \cap gtdb.nodes = {}
    /\ Grafted =>
          \A n \in Matched0 :
              \A t \in OwnRecordTips0(n) :
                  t \in ProperDesc(gtdb, lookup[other0.name[n]])

\* grafting has ended: a matched node with records of its own had a matched
\* node with records of its own below it
C25_Witness ==
    /\ Grafted
    /\ \E n, a \in Matched0 :
          /\ a \in Anc0(n)
          /\ OwnRecordTips0(n) # {}
          /\ OwnRecordTips0(a) # {}

\* how many times x is a child of a node of the tree t
Occurrences(t, x) ==
    Cardinality({pi \in UNION {{<<p, i>> : i \in DOMAIN t.children[p]} :
                                  p \in InTree(t)} :
                    t.children[pi[1]][pi[2]] = x})

\* C28: when grafting ends every record the secondary tree had is in one
\* place and one only: a tip of the primary tree below a node of the lookup,
\* or still a tip of the secondary tree.
C28_RecordsConserved ==
    Grafted =>
        \A t \in Records0 :
            LET inPrimary ==
                    /\ t \in InTree(gtdb)
                    /\ IsTip(gtdb, t)
                    /\ \E k \in DOMAIN lookup :
                          t \in ProperDesc(gtdb, lookup[k])
                inSecondary == t \in InTree(other) /\ IsTip(other, t)
            IN  /\ inPrimary # inSecondary
                /\ Occurrences(gtdb, t) + Occurrences(other, t) = 1

\* grafting has ended with one record in the primary tree and another one
\* left in the secondary tree
C28_Witness ==
    /\ Grafted
    /\ Records0 \cap InTree(gtdb) # {}
    /\ Records0 \cap InTree(other) # {}

\* C29: grafting keeps the root, the nodes, the names, the parents and the
\* children of the primary tree, the children in their order before the
\* ones it adds, and it never changes the lookup, whose keys stay the names
\* of nodes the primary tree had.
C29_PrimaryOnlyGrows ==
    /\ [](pc \in {"graft", "grafted"} =>
            /\ gtdb.root = gtdb0.root
            /\ gtdb0.nodes \subseteq gtdb.nodes
            /\ \A x \in gtdb0.nodes :
                  /\ gtdb.name[x] = gtdb0.name[x]
                  /\ gtdb.parent[x] = gtdb0.parent[x]
                  /\ Len(gtdb.children[x]) >= Len(gtdb0.children[x])
                  /\ SubSeq(gtdb.children[x], 1, Len(gtdb0.children[x]))
                        = gtdb0.children[x]
            /\ \A k \in DOMAIN lookup :
                  lookup[k] \in gtdb0.nodes /\ gtdb.name[lookup[k]] = k)
    /\ [][lookup' = lookup]_vars

\* grafting has ended and a node of the lookup that had a child has more
\* children than it had
C29_Witness ==
    /\ Grafted
    /\ \E k \in DOMAIN lookup :
          /\ gtdb0.children[lookup[k]] # <<>>
          /\ Len(gtdb.children[lookup[k]]) > Len(gtdb0.children[lookup[k]])

----------------------------------------------------------------------------
(* adjust_ltp: the order of the derived rules *)

\* the lineage of the record id as the call found it
LineageBefore(id) == (CHOOSE r \in ltp_tax0 : r.id = id).lineage

\* every order sorted(list(auto_rename)) can give for this table and index
RuleOrders == SortedByLength(AutoEntries(Candidates(ltp_tax0, ncbi_to_gtdb)))

\* C27: for the table and the name index of the call, the lineages the
\* rewrite leaves are the ones every order of the derived rules of one
\* separator count gives.
C27_OrderOfRulesIrrelevant ==
    pc = "renamed" =>
        \A r \in ltp_tax :
            \A es \in RuleOrders :
                ApplyFrom(es \o LTP_RENAMES, 1, LineageBefore(r.id)) = r.lineage

----------------------------------------------------------------------------
(* ncbi_to_gtdb_mappings: the name index built from the GTDB metadata *)

\* the rows kept by the selection on gtdb_representative and
\* ncbi_type_material_designation
Qualifies(r) ==
    r.gtdb_representative = "t" /\ r.ncbi_type_material_designation # "none"

Filtered == SelectSeq(gtdb_metadata, Qualifies)

\* [n.split('__', 1)[1] for n in taxonomy.split(';')]
NamesOf(taxonomy) ==
    LET parts == Split(taxonomy, ";")
    IN  [i \in DOMAIN parts |-> SplitRank(parts[i])]

\* ';'.join(gtdb[:lvl+1])
Remap(gtdb_names, lvl) ==
    LET n == IF lvl + 1 <= Len(gtdb_names) THEN lvl + 1 ELSE Len(gtdb_names)
    IN  Join(SubSeq(gtdb_names, 1, n), ";")

\* one turn of `for lvl, name in enumerate(ncbi)` on the dictionary and the
\* set of st
LevelStep(st, ncbi_names, gtdb_names, lvl) ==
    LET name == ncbi_names[lvl + 1]
        key == <<lvl, name>>
        remap == Remap(gtdb_names, lvl)
    IN  IF Len(name) = 0 THEN st
        ELSE IF lvl = 6 /\ ncbi_names[Len(ncbi_names)] # gtdb_names[Len(gtdb_names)] THEN st
        ELSE IF key \in DOMAIN st.mappings /\ st.mappings[key] # remap
             THEN [st EXCEPT !.drop = @ \cup {key}]
        ELSE [st EXCEPT !.mappings = (key :> remap) @@ @]

\* the turns lvl..len(ncbi)-1 of the loop on the levels
RECURSIVE LevelsFrom(_, _, _, _)
LevelsFrom(st, ncbi_names, gtdb_names, lvl) ==
    IF lvl >= Len(ncbi_names) THEN st
    ELSE LevelsFrom(LevelStep(st, ncbi_names, gtdb_names, lvl), ncbi_names, gtdb_names, lvl + 1)

DelKeys_Nothing(m, ks) == m

\* for k in drop: del mappings[k]
DelKeys(m, ks) == [k \in DOMAIN m \ ks |-> m[k]]

\* one turn of `for r in gtdb_metadata.itertuples()`
IndexRecord ==
    /\ pc = "index"
    /\ mi <= Len(Filtered)
    /\ LET r == Filtered[mi]
           st == LevelsFrom([mappings |-> mappings, drop |-> drop],
                            NamesOf(r.ncbi_taxonomy), NamesOf(r.gtdb_taxonomy), 0)
       IN  /\ mappings' = st.mappings
           /\ drop' = st.drop
    /\ mi' = mi + 1
    /\ UNCHANGED <<pc, err, gtdb_metadata, tabVars, polyVars, removed, treeVars,
                   rewriteVars, mapVars, uniqVars, reportVars>>

\* the loop is over: the keys of drop are deleted and the index returned
IndexReturn ==
    /\ pc = "index"
    /\ mi > Len(Filtered)
    /\ mappings' = DelKeys(mappings, drop)
    /\ pc' = "indexed"
    /\ UNCHANGED <<err, gtdb_metadata, drop, mi, tabVars, polyVars, removed,
                   treeVars, rewriteVars, mapVars, uniqVars, reportVars>>

----------------------------------------------------------------------------
(* ncbi_to_gtdb_mappings: the inputs of the model *)

MaxMetaRows == 3

NcbiGa == <<"d", "_", "_", "B", ";", "p", "_", "_", "P", ";", "c", "_", "_", "C", ";", "o", "_", "_", "O", ";", "f", "_", "_", "F", ";", "g", "_", "_", "G", ";", "s", "_", "_", "G", " ", "a">>
NcbiGb == <<"d", "_", "_", "B", ";", "p", "_", "_", "P", ";", "c", "_", "_", "C", ";", "o", "_", "_", "O", ";", "f", "_", "_", "F", ";", "g", "_", "_", "G", ";", "s", "_", "_", "G", " ", "b">>
NcbiGaGaps == <<"d", "_", "_", "B", ";", "p", "_", "_", "P", ";", "c", "_", "_", ";", "o", "_", "_", ";", "f", "_", "_", ";", "g", "_", "_", "G", ";", "s", "_", "_", "G", " ", "a">>
GtdbQGa == <<"d", "_", "_", "B", ";", "p", "_", "_", "Q", ";", "c", "_", "_", "C", ";", "o", "_", "_", "O", ";", "f", "_", "_", "F", ";", "g", "_", "_", "G", ";", "s", "_", "_", "G", " ", "a">>
GtdbQGb == <<"d", "_", "_", "B", ";", "p", "_", "_", "Q", ";", "c", "_", "_", "C", ";", "o", "_", "_", "O", ";", "f", "_", "_", "F", ";", "g", "_", "_", "G", ";", "s", "_", "_", "G", " ", "b">>
GtdbQHa == <<"d", "_", "_", "B", ";", "p", "_", "_", "Q", ";", "c", "_", "_", "C", ";", "o", "_", "_", "O", ";", "f", "_", "_", "F", ";", "g", "_", "_", "H", ";", "s", "_", "_", "H", " ", "a">>
GtdbRGa == <<"d", "_", "_", "B", ";", "p", "_", "_", "R", ";", "c", "_", "_", "C", ";", "o", "_", "_", "O", ";", "f", "_", "_", "F", ";", "g", "_", "_", "G", ";", "s", "_", "_", "G", " ", "a">>

MetaRow(n, g, rep, type) ==
    [ncbi_taxonomy |-> n, gtdb_taxonomy |-> g, gtdb_representative |-> rep,
     ncbi_type_material_designation |-> type]

\* rows of the metadata: the same names with the same and with other paths,
\* a species renamed, levels with no name, rows the selection leaves out
MetaRows == <<
    MetaRow(NcbiGa, GtdbQGa, "t", "assembly from type material"),
    MetaRow(NcbiGa, GtdbRGa, "t", "assembly from type material"),
    MetaRow(NcbiGb, GtdbQGa, "t", "assembly from type material"),
    MetaRow(NcbiGb, GtdbQGb, "t", "assembly from type material"),
    MetaRow(NcbiGa, GtdbQHa, "t", "assembly from synonym type material"),
    MetaRow(NcbiGaGaps, GtdbQGa, "t", "assembly from type material"),
    MetaRow(NcbiGa, GtdbRGa, "f", "assembly from type material"),
    MetaRow(NcbiGa, GtdbRGa, "t", "none") >>

IndexInit ==
    /\ pc = "index"
    /\ err = "none"
    /\ \E n \in 1..MaxMetaRows :
          \E v \in [1..n -> DOMAIN MetaRows] :
              gtdb_metadata = [i \in 1..n |-> MetaRows[v[i]]]
    /\ mappings = <<>>
    /\ drop = {}
    /\ mi = 1
    /\ gtdb_tax = {}
    /\ ltp_tax = {}
    /\ PolyIdle
    /\ removed = {}
    /\ TreeIdle
    /\ RewriteIdle
    /\ MapIdle
    /\ UniqIdle
    /\ ReportIdle

IndexNext ==
    \/ IndexRecord
    \/ IndexReturn

SpecIndex == IndexInit /\ [][IndexNext]_vars

----------------------------------------------------------------------------
(* ncbi_to_gtdb_mappings: the claim *)

\* the rows of the metadata that are GTDB representatives with a type
\* material designation
TypeRepresentatives ==
    {gtdb_metadata[i] : i \in {j \in DOMAIN gtdb_metadata :
        /\ gtdb_metadata[j].gtdb_representative = "t"
        /\ gtdb_metadata[j].ncbi_type_material_designation # "none"}}

\* the row r has the name of the key at the level of the key, and at the
\* level of species its NCBI and GTDB species names are equal
HasName(r, key) ==
    LET ncbi_names == NamesOf(r.ncbi_taxonomy)
        gtdb_names == NamesOf(r.gtdb_taxonomy)
    IN  /\ key[1] + 1 <= Len(ncbi_names)
        /\ ncbi_names[key[1] + 1] = key[2]
        /\ key[1] = 6 => ncbi_names[7] = gtdb_names[7]

\* the GTDB paths through the level of the key of the rows having its name
PathsOf(key) ==
    {Remap(NamesOf(r.gtdb_taxonomy), key[1]) :
        r \in {q \in TypeRepresentatives : HasName(q, key)}}

\* every (level, name) with a name that is not empty in the metadata
MetaKeys ==
    UNION {LET ncbi_names == NamesOf(gtdb_metadata[i].ncbi_taxonomy)
           IN  {<<l - 1, ncbi_names[l]>> : l \in {k \in DOMAIN ncbi_names : ncbi_names[k] # <<>>}}
           : i \in DOMAIN gtdb_metadata}

\* C26: in the index returned a key (level, NCBI name) is present exactly
\* when the type representatives having that name at that level (at the
\* level of species: with equal NCBI and GTDB species names) give one and
\* the same GTDB path through that level, which is then its value; a key met
\* with two paths is absent.
C26_OnePathPerKey ==
    pc = "indexed" =>
        /\ DOMAIN mappings \subseteq MetaKeys
        /\ \A key \in MetaKeys :
              /\ key \in DOMAIN mappings <=> Cardinality(PathsOf(key)) = 1
              /\ key \in DOMAIN mappings => mappings[key] \in PathsOf(key)

\* the index is returned: a key is in it, a key met with two paths is not,
\* and a species key is absent because the one row naming it has another
\* GTDB species name
C26_Witness ==
    /\ pc = "indexed"
    /\ DOMAIN mappings # {}
    /\ \E key \in MetaKeys : Cardinality(PathsOf(key)) > 1
    /\ \E key \in MetaKeys : key[1] = 6 /\ PathsOf(key) = {}

----------------------------------------------------------------------------
(* tree_map.py: collapse_species_by_distance *)

\* tip.distance(node) of a tip below the node: the lengths from the tip up
\* to the node, the one of the node left out
RECURSIVE Distance(_, _, _)
Distance(t, x, n) ==
    IF x = n THEN 0 ELSE t.length[x] + Distance(t, t.parent[x], n)

\* node.tips()
TipsBelow(t, n) == {d \in ProperDesc(t, n) : IsTip(t, d)}

\* min(dists)
MinDist(t, n) ==
    LET dists == {Distance(t, tip, n) : tip \in TipsBelow(t, n)}
    IN  CHOOSE m \in dists : \A k \in dists : m <= k

\* `for c in node.children: node.remove(c)`: the loop is at index i of the
\* list that remove() shortens while the loop goes through it
RECURSIVE RemoveInLoop(_, _)
RemoveInLoop(children, i) ==
    IF i > Len(children) THEN children
    ELSE RemoveInLoop(SubSeq(children, 1, i - 1)
                         \o SubSeq(children, i + 1, Len(children)), i + 1)

\* the tree after the body of the loop ran on the node n
Collapse(t, n) ==
    LET left == RemoveInLoop(t.children[n], 1)
        gone == SeqToSet(t.children[n]) \ SeqToSet(left)
    IN  [t EXCEPT !.length[n] = @ + MinDist(t, n),
                  !.children[n] = left,
                  !.parent = [x \in DOMAIN @ |->
                                 IF x \in gone THEN NoNode ELSE @[x]]]

\* tree.traverse(): the preorder generator starts with the tree on its stack
\* (traversal_order holds the stack, the next node first)
CollapseStart ==
    /\ pc = "collapse_call"
    /\ traversal_order' = <<tree.root>>
    /\ pc' = "collapse"
    /\ UNCHANGED <<err, tree, tree0, rank, ti, cut_removed, tabVars, polyVars,
                   removed, treeVars, rewriteVars, uniqVars, reportVars,
                   indexVars>>

\* a node with the rank specifier in its name and tips below it: the body
\* runs, and the generator then stacks the children the node has left
CollapseNode ==
    /\ pc = "collapse"
    /\ traversal_order # <<>>
    /\ LET node == Head(traversal_order)
       IN  /\ RankNamed(tree, node, RankSpecifier(rank))
           /\ ~IsTip(tree, node)
           /\ tree' = Collapse(tree, node)
           /\ traversal_order' = tree'.children[node] \o Tail(traversal_order)
    /\ ti' = ti + 1
    /\ UNCHANGED <<pc, err, tree0, rank, cut_removed, tabVars, polyVars,
                   removed, treeVars, rewriteVars, uniqVars, reportVars,
                   indexVars>>

\* a tip with the rank specifier in its name: min() of an empty list raises
CollapseRaise ==
    /\ pc = "collapse"
    /\ traversal_order # <<>>
    /\ LET node == Head(traversal_order)
       IN  /\ RankNamed(tree, node, RankSpecifier(rank))
           /\ IsTip(tree, node)
    /\ err' = "ValueError"
    /\ pc' = "raised"
    /\ UNCHANGED <<mapVars, tabVars, polyVars, removed, treeVars, rewriteVars,
                   uniqVars, reportVars, indexVars>>

\* any other node: the generator stacks its children
CollapseSkip ==
    /\ pc = "collapse"
    /\ traversal_order # <<>>
    /\ LET node == Head(traversal_order)
       IN  /\ ~RankNamed(tree, node, RankSpecifier(rank))
           /\ traversal_order' = tree.children[node] \o Tail(traversal_order)
    /\ ti' = ti + 1
    /\ UNCHANGED <<pc, err, tree, tree0, rank, cut_removed, tabVars, polyVars,
                   removed, treeVars, rewriteVars, uniqVars, reportVars,
                   indexVars>>

\* the stack is empty: the traversal is over
CollapseReturn ==
    /\ pc = "collapse"
    /\ traversal_order = <<>>
    /\ pc' = "collapsed"
    /\ UNCHANGED <<err, mapVars, tabVars, polyVars, removed, treeVars,
                   rewriteVars, uniqVars, reportVars, indexVars>>

CollapseInit ==
    /\ pc = "collapse_call"
    /\ err = "none"
    /\ TablesIdle
    /\ PolyIdle
    /\ removed = {}
    /\ TreeIdle
    /\ RewriteIdle
    /\ UniqIdle
    /\ ReportIdle
    /\ IndexIdle
    /\ rank \in {"s", "g"}
    /\ \E n \in 1..MaxMapNodes :
          \E pv \in [2..n -> 1..n] :
              /\ \A i \in 2..n : pv[i] < i
              /\ \E nm \in [1..n -> MapNames] :
                    tree = MapTree(n, pv, nm)
    /\ tree0 = tree
    /\ traversal_order = <<>>
    /\ ti = 0
    /\ cut_removed = {}

CollapseNext ==
    \/ CollapseStart
    \/ CollapseNode
    \/ CollapseRaise
    \/ CollapseSkip
    \/ CollapseReturn

SpecCollapse == CollapseInit /\ [][CollapseNext]_vars

----------------------------------------------------------------------------
(* collapse_species_by_distance: the claim *)

\* the nodes with the rank specifier in their name the traversal comes to
\* whatever was removed: none of the nodes above them has it in its name
NamedOnTop ==
    {n \in tree0.nodes :
        /\ RankNamed(tree0, n, RankSpecifier(rank))
        /\ \A a \in tree0.nodes :
              n \in ProperDesc(tree0, a) => ~RankNamed(tree0, a, RankSpecifier(rank))}

\* C30: after collapse_species_by_distance every node with the rank
\* specifier in its name has no child left, however many it had, and its
\* length is the length it had plus the smallest distance to a tip it had.
C30_CollapsedToTips ==
    pc = "collapsed" =>
        \A n \in NamedOnTop :
            /\ IsTip(tree, n)
            /\ tree.length[n] = tree0.length[n] + MinDist(tree0, n)

\* the part of C30 on the lengths alone, and the children the loop leaves:
\* the ones at the even places of the list the node had
C30_LengthsAndEvenChildren ==
    pc = "collapsed" =>
        \A n \in NamedOnTop :
            /\ tree.length[n] = tree0.length[n] + MinDist(tree0, n)
            /\ tree.children[n] =
                  [k \in 1..(Len(tree0.children[n]) \div 2) |->
                      tree0.children[n][2 * k]]
====
